---- MODULE Spec2Model ----
(***************************************************************************)
(* A model of the oonidata observation and verdict pipeline:               *)
(*   - the bogon classifier (datautils.py),                                *)
(*   - the verdict-generation pass over the DNS observations of a day      *)
(*     (processing.py), with the verdict table and the persistent          *)
(*     dns_consistency_tls_baseline cache,                                  *)
(*   - the TLS handshake / network-event correlator and the TLS            *)
(*     observation builder (observations.py),                              *)
(*   - the HTTP observation builder with redirect attribution.             *)
(* Optional values (Python None) are sequences of length at most one.      *)
(***************************************************************************)
EXTENDS Integers, Sequences, FiniteSets, Bags, TLC

None == <<>>
Some(x) == <<x>>
IsNone(o) == o = <<>>
Get(o) == o[1]

Range(s) == {s[i] : i \in DOMAIN s}

(***************************************************************************)
(* Bounds of the model.                                                    *)
(***************************************************************************)
\* rows of the obs_dns table
MaxRows == 2
\* verdict-generation passes run one after the other over the same day
MaxRuns == 2

(***************************************************************************)
(* Address literals.  ipaddress.IPv4Address / IPv6Address parse a string;  *)
(* the literals below are given with the words the parser yields           *)
(* (4 octets, or 8 groups of 16 bits).  Any other string is not a literal  *)
(* of that family and makes the constructor raise AddressValueError.       *)
(***************************************************************************)
\* dotted-quad text of four octets
IPv4Text(w) ==
    ToString(w[1]) \o "." \o ToString(w[2]) \o "." \o ToString(w[3]) \o "."
        \o ToString(w[4])

IPv4Words == {1, 8, 10, 127, 192} \X {0, 8, 168, 255} \X {0, 8} \X {1, 8}

IPv4Literals ==
    ("8.8.8.8" :> <<8, 8, 8, 8>>) @@ ("10.0.0.1" :> <<10, 0, 0, 1>>) @@
    ("127.0.0.1" :> <<127, 0, 0, 1>>) @@ ("192.168.1.1" :> <<192, 168, 1, 1>>) @@
    ("1.1.1.1" :> <<1, 1, 1, 1>>) @@
    [s \in {IPv4Text(w) : w \in IPv4Words} |->
        CHOOSE w \in IPv4Words : IPv4Text(w) = s]

HexDigits ==
    <<"0", "1", "2", "3", "4", "5", "6", "7", "8", "9", "a", "b", "c", "d", "e", "f">>

\* a 16-bit group in hexadecimal, without leading zeros
RECURSIVE HexText(_)
HexText(n) ==
    IF n < 16 THEN HexDigits[n + 1]
    ELSE HexText(n \div 16) \o HexDigits[(n % 16) + 1]

\* the uncompressed text of eight groups
IPv6Text(w) ==
    HexText(w[1]) \o ":" \o HexText(w[2]) \o ":" \o HexText(w[3]) \o ":"
        \o HexText(w[4]) \o ":" \o HexText(w[5]) \o ":" \o HexText(w[6]) \o ":"
        \o HexText(w[7]) \o ":" \o HexText(w[8])

IPv6Words ==
    {0, 8193, 8194, 64512, 64768, 65024} \X {0, 18528, 49320, 49321}
        \X {0} \X {0} \X {0} \X {0} \X {0} \X {0, 1}

IPv6Literals ==
    ("fc00::1" :> <<64512, 0, 0, 0, 0, 0, 0, 1>>) @@
    ("::1" :> <<0, 0, 0, 0, 0, 0, 0, 1>>) @@
    ("2002:c0a8::1" :> <<8194, 49320, 0, 0, 0, 0, 0, 1>>) @@
    ("2001:4860:4860::8888" :> <<8193, 18528, 18528, 0, 0, 0, 0, 34952>>) @@
    [s \in {IPv6Text(w) : w \in IPv6Words} |->
        CHOOSE w \in IPv6Words : IPv6Text(w) = s]

IPv4Address(ip) ==
    IF ip \in DOMAIN IPv4Literals
    THEN Some([version |-> 4, words |-> IPv4Literals[ip]])
    ELSE None

IPv6Address(ip) ==
    IF ip \in DOMAIN IPv6Literals
    THEN Some([version |-> 6, words |-> IPv6Literals[ip]])
    ELSE None

bogon_ipv4_ranges ==
    <<[version |-> 4, words |-> <<0, 0, 0, 0>>, prefixlen |-> 8],
      [version |-> 4, words |-> <<10, 0, 0, 0>>, prefixlen |-> 8],
      [version |-> 4, words |-> <<100, 64, 0, 0>>, prefixlen |-> 10],
      [version |-> 4, words |-> <<127, 0, 0, 0>>, prefixlen |-> 8],
      [version |-> 4, words |-> <<169, 254, 0, 0>>, prefixlen |-> 16],
      [version |-> 4, words |-> <<172, 16, 0, 0>>, prefixlen |-> 12],
      [version |-> 4, words |-> <<192, 0, 0, 0>>, prefixlen |-> 24],
      [version |-> 4, words |-> <<192, 0, 2, 0>>, prefixlen |-> 24],
      [version |-> 4, words |-> <<192, 168, 0, 0>>, prefixlen |-> 16],
      [version |-> 4, words |-> <<198, 18, 0, 0>>, prefixlen |-> 15],
      [version |-> 4, words |-> <<198, 51, 100, 0>>, prefixlen |-> 24],
      [version |-> 4, words |-> <<203, 0, 113, 0>>, prefixlen |-> 24],
      [version |-> 4, words |-> <<224, 0, 0, 0>>, prefixlen |-> 3] >>
bogon_ipv6_ranges ==
    <<[version |-> 6, words |-> <<0, 0, 0, 0, 0, 0, 0, 0>>, prefixlen |-> 128],
      [version |-> 6, words |-> <<0, 0, 0, 0, 0, 0, 0, 1>>, prefixlen |-> 128],
      [version |-> 6, words |-> <<0, 0, 0, 0, 0, 65535, 0, 0>>, prefixlen |-> 96],
      [version |-> 6, words |-> <<0, 0, 0, 0, 0, 0, 0, 0>>, prefixlen |-> 96],
      [version |-> 6, words |-> <<256, 0, 0, 0, 0, 0, 0, 0>>, prefixlen |-> 64],
      [version |-> 6, words |-> <<8193, 16, 0, 0, 0, 0, 0, 0>>, prefixlen |-> 28],
      [version |-> 6, words |-> <<8193, 3512, 0, 0, 0, 0, 0, 0>>, prefixlen |-> 32],
      [version |-> 6, words |-> <<64512, 0, 0, 0, 0, 0, 0, 0>>, prefixlen |-> 7],
      [version |-> 6, words |-> <<65152, 0, 0, 0, 0, 0, 0, 0>>, prefixlen |-> 10],
      [version |-> 6, words |-> <<65216, 0, 0, 0, 0, 0, 0, 0>>, prefixlen |-> 10],
      [version |-> 6, words |-> <<65280, 0, 0, 0, 0, 0, 0, 0>>, prefixlen |-> 8],
      [version |-> 6, words |-> <<8194, 0, 0, 0, 0, 0, 0, 0>>, prefixlen |-> 24],
      [version |-> 6, words |-> <<8194, 2560, 0, 0, 0, 0, 0, 0>>, prefixlen |-> 24],
      [version |-> 6, words |-> <<8194, 32512, 0, 0, 0, 0, 0, 0>>, prefixlen |-> 24],
      [version |-> 6, words |-> <<8194, 43518, 0, 0, 0, 0, 0, 0>>, prefixlen |-> 32],
      [version |-> 6, words |-> <<8194, 44048, 0, 0, 0, 0, 0, 0>>, prefixlen |-> 28],
      [version |-> 6, words |-> <<8194, 49152, 0, 0, 0, 0, 0, 0>>, prefixlen |-> 40],
      [version |-> 6, words |-> <<8194, 49152, 512, 0, 0, 0, 0, 0>>, prefixlen |-> 40],
      [version |-> 6, words |-> <<8194, 49320, 0, 0, 0, 0, 0, 0>>, prefixlen |-> 32],
      [version |-> 6, words |-> <<8194, 50706, 0, 0, 0, 0, 0, 0>>, prefixlen |-> 31],
      [version |-> 6, words |-> <<8194, 50739, 25600, 0, 0, 0, 0, 0>>, prefixlen |-> 40],
      [version |-> 6, words |-> <<8194, 51968, 28928, 0, 0, 0, 0, 0>>, prefixlen |-> 40],
      [version |-> 6, words |-> <<8194, 57344, 0, 0, 0, 0, 0, 0>>, prefixlen |-> 20],
      [version |-> 6, words |-> <<8194, 61440, 0, 0, 0, 0, 0, 0>>, prefixlen |-> 20],
      [version |-> 6, words |-> <<8194, 65535, 65535, 0, 0, 0, 0, 0>>, prefixlen |-> 48],
      [version |-> 6, words |-> <<8193, 0, 0, 0, 0, 0, 0, 0>>, prefixlen |-> 40],
      [version |-> 6, words |-> <<8193, 0, 2560, 0, 0, 0, 0, 0>>, prefixlen |-> 40],
      [version |-> 6, words |-> <<8193, 0, 32512, 0, 0, 0, 0, 0>>, prefixlen |-> 40],
      [version |-> 6, words |-> <<8193, 0, 43518, 0, 0, 0, 0, 0>>, prefixlen |-> 48],
      [version |-> 6, words |-> <<8193, 0, 44048, 0, 0, 0, 0, 0>>, prefixlen |-> 44],
      [version |-> 6, words |-> <<8193, 0, 49152, 0, 0, 0, 0, 0>>, prefixlen |-> 56],
      [version |-> 6, words |-> <<8193, 0, 49152, 512, 0, 0, 0, 0>>, prefixlen |-> 56],
      [version |-> 6, words |-> <<8193, 0, 49320, 0, 0, 0, 0, 0>>, prefixlen |-> 48],
      [version |-> 6, words |-> <<8193, 0, 50706, 0, 0, 0, 0, 0>>, prefixlen |-> 47],
      [version |-> 6, words |-> <<8193, 0, 50739, 25600, 0, 0, 0, 0>>, prefixlen |-> 56],
      [version |-> 6, words |-> <<8193, 0, 51968, 28928, 0, 0, 0, 0>>, prefixlen |-> 56],
      [version |-> 6, words |-> <<8193, 0, 57344, 0, 0, 0, 0, 0>>, prefixlen |-> 36],
      [version |-> 6, words |-> <<8193, 0, 61440, 0, 0, 0, 0, 0>>, prefixlen |-> 36],
      [version |-> 6, words |-> <<8193, 0, 65535, 65535, 0, 0, 0, 0>>, prefixlen |-> 64] >>

(***************************************************************************)
(* State.  The parts of the pipeline are modelled side by side; a          *)
(* specification runs one of them and holds the others off.                *)
(***************************************************************************)
VARIABLES
    obs_dns,                      \* the obs_dns table, in measurement_uid order
    obs_dns_columns,              \* the names of the columns of obs_dns
    fleet_tls_consistent,         \* per domain, the answers make_dns_baseline returns
    verdict,                      \* the verdict table, a bag of rows
    dns_consistency_tls_baseline, \* the cache table, a bag of <<ip, domain_name>>
    run,                          \* number of passes (or of calls) started
    pc,                           \* position of the pass, or of the call
    domains_todo,                 \* domains of domains_in_a_day not yet visited
    domain_name,
    dns_baseline,                 \* dns_baseline.tls_consistent_answers, a bag
    dns_sessions,                 \* what dns_observations_by_session yields
    dns_o_list,
    missing_answers,
    new_tls_consistent_ips,
    rows_to_write,
    cache_hits,                   \* history: answers confirmed from the cache in this call
    probe_calls,                  \* history: a bag of the ips of the is_tls_valid calls of this call
    probe_log,                    \* history: every <<ip, domain, result>> of is_tls_valid
    deleted_report_ids,           \* history: ids the pass issued a DELETE for
    pass_exc                      \* the exception that ended the pass, if one did

vars_verdicts ==
    <<obs_dns, obs_dns_columns, fleet_tls_consistent, verdict, dns_consistency_tls_baseline, run, pc,
      domains_todo, domain_name, dns_baseline, dns_sessions, dns_o_list,
      missing_answers, new_tls_consistent_ips, rows_to_write,
      cache_hits, probe_calls, probe_log, deleted_report_ids, pass_exc>>

VARIABLES
    tls_h,               \* the TLSHandshake
    network_events,      \* Optional[List[NetworkEvent]]
    ip_to_domain,        \* Dict[str, str], a function on the ips it holds
    tls_pc,              \* "off", "input" or "done"
    tls_network_events,  \* what find_tls_handshake_network_events returned
    tlso                 \* the TLSObservation built

vars_tls == <<tls_h, network_events, ip_to_domain, tls_pc, tls_network_events, tlso>>

VARIABLES requests_list, http_pc, http_idx, http_observations, http_raised

vars_http == <<requests_list, http_pc, http_idx, http_observations, http_raised>>

\* the verdict-generation pass is not running
IdleVerdicts ==
    /\ obs_dns = <<>>
    /\ obs_dns_columns = {}
    /\ fleet_tls_consistent = <<>>
    /\ verdict = EmptyBag
    /\ dns_consistency_tls_baseline = EmptyBag
    /\ run = 0
    /\ pc = "off"
    /\ domains_todo = {}
    /\ domain_name = None
    /\ dns_baseline = EmptyBag
    /\ dns_sessions = <<>>
    /\ dns_o_list = <<>>
    /\ missing_answers = {}
    /\ new_tls_consistent_ips = {}
    /\ rows_to_write = {}
    /\ cache_hits = {}
    /\ probe_calls = EmptyBag
    /\ probe_log = {}
    /\ deleted_report_ids = {}
    /\ pass_exc = None

\* make_tls_observations is not running
IdleTLS ==
    /\ tls_h = None
    /\ network_events = None
    /\ ip_to_domain = <<>>
    /\ tls_pc = "off"
    /\ tls_network_events = None
    /\ tlso = None

\* make_http_observations is not running
IdleHTTP ==
    /\ requests_list = None
    /\ http_pc = "off"
    /\ http_idx = 0
    /\ http_observations = <<>>
    /\ http_raised = None

VARIABLES
    bogon_ip,           \* the argument of the classifiers
    bogon_ipv4_result,  \* what is_ipv4_bogon returned
    bogon_ipv6_result   \* what is_ipv6_bogon returned

vars_bogon == <<bogon_ip, bogon_ipv4_result, bogon_ipv6_result>>

\* no classifier call
IdleBogon ==
    /\ bogon_ip = None
    /\ bogon_ipv4_result = None
    /\ bogon_ipv6_result = None

VARIABLES
    dns_queries,       \* Optional[List[DNSQuery]]
    dns_pc,            \* "off", "input" or "done"
    dns_observations   \* the observations make_dns_observations yielded

vars_dns == <<dns_queries, dns_pc, dns_observations>>

\* make_dns_observations is not running
IdleDNS ==
    /\ dns_queries = None
    /\ dns_pc = "off"
    /\ dns_observations = <<>>

VARIABLES
    msmt,          \* the DNSCheck measurement: its bootstrap and its lookups
    msmt_pc,       \* "off", "bootstrap", "lookups" or "done"
    lookup_idx,    \* lookups of the loop already written
    db_rows        \* the rows written, in order: [table, row]

vars_dnscheck == <<msmt, msmt_pc, lookup_idx, db_rows>>

\* dnscheck_processor is not running
IdleDnscheck ==
    /\ msmt = None
    /\ msmt_pc = "off"
    /\ lookup_idx = 0
    /\ db_rows = <<>>

VARIABLES
    parallelism,     \* args.parallelism: the number of worker processes
    clickhouse,      \* the database is a ClickhouseConnection (else a CSVConnection)
    only_verdicts,   \* args.only_verdicts
    num_days,        \* the number of days of date_interval(start_day, end_day)
    raising_days,    \* the days for which process_day raises
    days_to_put,     \* the days of date_interval not yet enqueued
    sentinels_put,   \* sentinels enqueued so far
    producer_pc,     \* "off", "days", "sentinels", "closed" or "pool_closed"
    day_queue,       \* the shared queue: Some(day) items and None sentinels
    worker_pc,       \* per process of the pool: "get", "day", "exited" or "failed"
    respawned,       \* the processes the pool has started in place of dead ones
    worker_reader,   \* per process: its copy of the queue's reader is open
    worker_day,      \* per worker: the day in process
    pool_log         \* history, per process: its takes, completions, sentinel and failure

vars_pool ==
    <<parallelism, clickhouse, only_verdicts, num_days, raising_days, days_to_put, sentinels_put,
      producer_pc, day_queue, worker_pc, respawned, worker_reader, worker_day, pool_log>>

\* no worker pool
IdlePool ==
    /\ parallelism = 0
    /\ clickhouse = FALSE
    /\ only_verdicts = FALSE
    /\ num_days = 0
    /\ raising_days = {}
    /\ days_to_put = <<>>
    /\ sentinels_put = 0
    /\ producer_pc = "off"
    /\ day_queue = <<>>
    /\ worker_pc = <<>>
    /\ respawned = 0
    /\ worker_reader = <<>>
    /\ worker_day = <<>>
    /\ pool_log = <<>>
VARIABLES
    day_msmts,           \* the measurements of the day
    day_fast_fail,       \* fast_fail
    day_start_at_idx,    \* start_at_idx
    day_clickhouse,      \* the database is a ClickhouseConnection
    day_skip_verdicts,   \* skip_verdicts
    day_idx,             \* the number of measurements iterated over
    day_pc,              \* "off", "loop", "returned" or "raised"
    day_exc,             \* the exception that left process_day, if one did
    bad_msmts,           \* the writes to bad_msmts.jsonl, in order
    bad_msmts_fail_log,  \* the writes to bad_msmts_fail_log.txt, in order
    day_rows,            \* the rows of the database, all tables, in insertion order
    day_statements,      \* history: the statements issued to the database, in order
    day_attempted,       \* history: the indexes whose try block was entered
    day_verdicts         \* write_verdicts_to_db has returned

vars_day ==
    <<day_msmts, day_fast_fail, day_start_at_idx, day_clickhouse, day_skip_verdicts, day_idx,
      day_pc, day_exc, bad_msmts, bad_msmts_fail_log, day_rows, day_statements, day_attempted,
      day_verdicts>>

\* no day in process
IdleDay ==
    /\ day_msmts = <<>>
    /\ day_fast_fail = FALSE
    /\ day_start_at_idx = 0
    /\ day_clickhouse = FALSE
    /\ day_skip_verdicts = FALSE
    /\ day_idx = 0
    /\ day_pc = "off"
    /\ day_exc = None
    /\ bad_msmts = <<>>
    /\ bad_msmts_fail_log = <<>>
    /\ day_rows = <<>>
    /\ day_statements = <<>>
    /\ day_attempted = <<>>
    /\ day_verdicts = FALSE
VARIABLES
    probe_ip,        \* the ip argument of is_tls_valid
    probe_hostname,  \* the hostname argument
    probe_connect,   \* what conn.connect((ip, 443)) meets on the network
    probe_pc,        \* "off", "call", "returned" or "raised"
    probe_result     \* the value returned, or the exception raised

vars_probe == <<probe_ip, probe_hostname, probe_connect, probe_pc, probe_result>>

\* no live probe
IdleProbe ==
    /\ probe_ip = None
    /\ probe_hostname = None
    /\ probe_connect = None
    /\ probe_pc = "off"
    /\ probe_result = None
VARIABLES
    response_fragments,  \* the pieces the response body is made of
    response_body,       \* http_transaction.response.body_bytes
    fp_matches,          \* what fingerprintdb.match_http returns
    response_pc,         \* "off", "input" or "done"
    response_hrro        \* the response fields of the HTTPObservation

vars_response ==
    <<response_fragments, response_body, fp_matches, response_pc, response_hrro>>

\* no response in process
IdleResponse ==
    /\ response_fragments = <<>>
    /\ response_body = <<>>
    /\ fp_matches = <<>>
    /\ response_pc = "off"
    /\ response_hrro = None

vars == <<vars_verdicts, vars_tls, vars_http, vars_bogon, vars_dns, vars_dnscheck, vars_pool, vars_day, vars_probe, vars_response>>

\* everything but the state of the verdict-generation pass
vars_beside_verdicts ==
    <<vars_tls, vars_http, vars_bogon, vars_dns, vars_dnscheck, vars_pool, vars_day, vars_probe, vars_response>>

IdleBesideVerdicts ==
    /\ IdleTLS
    /\ IdleHTTP
    /\ IdleBogon
    /\ IdleDNS
    /\ IdleDnscheck
    /\ IdlePool
    /\ IdleDay
    /\ IdleProbe
    /\ IdleResponse

\* everything but the state of make tls observations
vars_beside_tls ==
    <<vars_verdicts, vars_http, vars_bogon, vars_dns, vars_dnscheck, vars_pool, vars_day, vars_probe, vars_response>>

IdleBesideTLS ==
    /\ IdleVerdicts
    /\ IdleHTTP
    /\ IdleBogon
    /\ IdleDNS
    /\ IdleDnscheck
    /\ IdlePool
    /\ IdleDay
    /\ IdleProbe
    /\ IdleResponse

\* everything but the state of make http observations
vars_beside_http ==
    <<vars_verdicts, vars_tls, vars_bogon, vars_dns, vars_dnscheck, vars_pool, vars_day, vars_probe, vars_response>>

IdleBesideHTTP ==
    /\ IdleVerdicts
    /\ IdleTLS
    /\ IdleBogon
    /\ IdleDNS
    /\ IdleDnscheck
    /\ IdlePool
    /\ IdleDay
    /\ IdleProbe
    /\ IdleResponse

\* everything but the state of the bogon classifier calls
vars_beside_bogon ==
    <<vars_verdicts, vars_tls, vars_http, vars_dns, vars_dnscheck, vars_pool, vars_day, vars_probe, vars_response>>

IdleBesideBogon ==
    /\ IdleVerdicts
    /\ IdleTLS
    /\ IdleHTTP
    /\ IdleDNS
    /\ IdleDnscheck
    /\ IdlePool
    /\ IdleDay
    /\ IdleProbe
    /\ IdleResponse

\* everything but the state of make dns observations
vars_beside_dns ==
    <<vars_verdicts, vars_tls, vars_http, vars_bogon, vars_dnscheck, vars_pool, vars_day, vars_probe, vars_response>>

IdleBesideDNS ==
    /\ IdleVerdicts
    /\ IdleTLS
    /\ IdleHTTP
    /\ IdleBogon
    /\ IdleDnscheck
    /\ IdlePool
    /\ IdleDay
    /\ IdleProbe
    /\ IdleResponse

\* everything but the state of dnscheck processor
vars_beside_dnscheck ==
    <<vars_verdicts, vars_tls, vars_http, vars_bogon, vars_dns, vars_pool, vars_day, vars_probe, vars_response>>

IdleBesideDnscheck ==
    /\ IdleVerdicts
    /\ IdleTLS
    /\ IdleHTTP
    /\ IdleBogon
    /\ IdleDNS
    /\ IdlePool
    /\ IdleDay
    /\ IdleProbe
    /\ IdleResponse

\* everything but the state of the worker pool
vars_beside_pool ==
    <<vars_verdicts, vars_tls, vars_http, vars_bogon, vars_dns, vars_dnscheck, vars_day, vars_probe, vars_response>>

IdleBesidePool ==
    /\ IdleVerdicts
    /\ IdleTLS
    /\ IdleHTTP
    /\ IdleBogon
    /\ IdleDNS
    /\ IdleDnscheck
    /\ IdleDay
    /\ IdleProbe
    /\ IdleResponse

\* everything but the state of process day
vars_beside_day ==
    <<vars_verdicts, vars_tls, vars_http, vars_bogon, vars_dns, vars_dnscheck, vars_pool, vars_probe, vars_response>>

IdleBesideDay ==
    /\ IdleVerdicts
    /\ IdleTLS
    /\ IdleHTTP
    /\ IdleBogon
    /\ IdleDNS
    /\ IdleDnscheck
    /\ IdlePool
    /\ IdleProbe
    /\ IdleResponse

\* everything but the state of the live TLS probe
vars_beside_probe ==
    <<vars_verdicts, vars_tls, vars_http, vars_bogon, vars_dns, vars_dnscheck, vars_pool, vars_day, vars_response>>

IdleBesideProbe ==
    /\ IdleVerdicts
    /\ IdleTLS
    /\ IdleHTTP
    /\ IdleBogon
    /\ IdleDNS
    /\ IdleDnscheck
    /\ IdlePool
    /\ IdleDay
    /\ IdleResponse

\* everything but the state of the response fields of an HTTP observation
vars_beside_response ==
    <<vars_verdicts, vars_tls, vars_http, vars_bogon, vars_dns, vars_dnscheck, vars_pool, vars_day, vars_probe>>

IdleBesideResponse ==
    /\ IdleVerdicts
    /\ IdleTLS
    /\ IdleHTTP
    /\ IdleBogon
    /\ IdleDNS
    /\ IdleDnscheck
    /\ IdlePool
    /\ IdleDay
    /\ IdleProbe

(***************************************************************************)
(* addr in network (ipaddress._BaseNetwork.__contains__): false when the   *)
(* versions differ, else the first prefixlen bits agree.                   *)
(***************************************************************************)
WordBits(version) == IF version = 4 THEN 8 ELSE 16

PrefixBits(prefixlen, k, w) ==
    LET left == prefixlen - (k - 1) * w
    IN  IF left <= 0 THEN 0 ELSE IF left >= w THEN w ELSE left

AddrInNetwork(addr, net) ==
    /\ addr.version = net.version
    /\ \A k \in DOMAIN addr.words :
          LET w == WordBits(addr.version)
              b == PrefixBits(net.prefixlen, k, w)
          IN  addr.words[k] \div (2 ^ (w - b)) = net.words[k] \div (2 ^ (w - b))

is_ipv4_bogon(ip) ==
    LET ipv4addr == IPv4Address(ip)
    IN  IF IsNone(ipv4addr) THEN FALSE
        ELSE \E i \in DOMAIN bogon_ipv4_ranges :
                AddrInNetwork(Get(ipv4addr), bogon_ipv4_ranges[i])

\* the source tests the IPv6 address against bogon_ipv4_ranges
is_ipv6_bogon(ip) ==
    LET ipv6addr == IPv6Address(ip)
    IN  IF IsNone(ipv6addr) THEN FALSE
        ELSE \E i \in DOMAIN bogon_ipv4_ranges :
                AddrInNetwork(Get(ipv6addr), bogon_ipv4_ranges[i])

\* An address of one of the reserved ranges of its own family's table.
InBogonTables(ip) ==
    \/ /\ ~IsNone(IPv4Address(ip))
       /\ \E i \in DOMAIN bogon_ipv4_ranges :
             AddrInNetwork(Get(IPv4Address(ip)), bogon_ipv4_ranges[i])
    \/ /\ ~IsNone(IPv6Address(ip))
       /\ \E i \in DOMAIN bogon_ipv6_ranges :
             AddrInNetwork(Get(IPv6Address(ip)), bogon_ipv6_ranges[i])

\* processing.py imports is_ip_bogon from datautils, which does not define
\* it.  The outcomes of a call, after section 4.1: for an IPv4 or IPv6
\* literal, whether it lies in a reserved range of the table of its
\* family.  For a text that is no literal section 4.1 has the classifier
\* return false, while the caller is written for a ValueError: either can
\* be the outcome.
is_ip_bogon(ip) ==
    IF IsNone(IPv4Address(ip)) /\ IsNone(IPv6Address(ip)) THEN {"False", "ValueError"}
    ELSE IF InBogonTables(ip) THEN {"True"}
    ELSE {"False"}

(***************************************************************************)
(* The verdict-generation pass (processing.py).                            *)
(***************************************************************************)
ReportIds == <<"A", "B">>
Domains == {"d1.example", "d2.example"}
AnswerIPs == {"8.8.8.8", "10.0.0.1", "fc00::1", "example.org"}
DnsAnswers == {None} \cup {Some(a) : a \in AnswerIPs}
FleetChoices == {{}, {"8.8.8.8"}}

\* one_day_dict(day): start_day is the midnight of the day, end_day that
\* of the next, in seconds
one_day_dict(day) == [start_day |-> day * 86400, end_day |-> day * 86400 + 86400]

\* WHERE timestamp >= %(start_day)s AND timestamp <= %(end_day)s, for the
\* day of the pass, from whose midnight the times are counted
InDay(timestamp) ==
    /\ timestamp >= one_day_dict(0).start_day
    /\ timestamp <= one_day_dict(0).end_day

\* the timestamps of the rows: the noon of the day, and a second past the
\* midnight that ends it
Timestamps == {43200, 86401}

\* DNSObservation(**obs_dict): the fields of the dataclass the pass reads.
\* The session of the observation is its session_id (the report id of the
\* measurement); the class has no field report_id.
DnsRow(uid, session_id, domain, answer, timestamp) ==
    [measurement_uid |-> uid, session_id |-> session_id,
     domain_name |-> domain, answer |-> answer, timestamp |-> timestamp]

\* obj.name: the value of the attribute, or None for the AttributeError of
\* an object without it
getattr(obj, name) == IF name \in DOMAIN obj THEN Some(obj[name]) ELSE None

\* a statement handed to the database connection: the primitive called,
\* the table it names, the session (report) id it names, the row it carries
\* and the columns it orders by
Statement(op, table, session_id, row, order_by) ==
    [op |-> op, table |-> table, session_id |-> session_id, row |-> row, order_by |-> order_by]

\* db.execute(q, params) of a SELECT ... FROM table ORDER BY order_by
SelectStatement(table, order_by) == Statement("SELECT", table, "", None, order_by)

\* the fields of DNSObservation, which observation_field_names lists and
\* which write_row is given
DNSObservationFields ==
    {"measurement_uid", "observation_id", "session_id", "timestamp", "target", "probe_asn",
     "probe_cc", "probe_as_org_name", "probe_as_cc", "software_name", "software_version",
     "network_type", "platform", "origin", "resolver_asn", "resolver_ip", "resolver_cc",
     "resolver_as_org_name", "resolver_as_cc", "domain_name", "query_type", "failure", "engine",
     "engine_resolver_address", "answer_type", "answer", "answer_asn", "answer_as_org_name",
     "answer_as_cc", "answer_cc", "answer_is_bogon", "fingerprint_id",
     "fingerprint_country_consistent", "is_tls_consistent"}

\* the table is created outside processing.py: its columns are those
\* write_row is given, with or without a column report_id, which no
\* write_row fills
ObsDnsSchemas == {DNSObservationFields, DNSObservationFields \cup {"report_id"}}

\* domains_in_a_day: SELECT DISTINCT(domain_name) FROM obs_dns
DomainsQuery == SelectStatement("obs_dns", <<>>)

\* dns_observations_by_session: SELECT the fields FROM obs_dns ... ORDER BY
\* report_id, measurement_uid
SessionQuery == SelectStatement("obs_dns", <<"report_id", "measurement_uid">>)

\* the database refuses a query that names a column the table does not have
UnknownColumn(statement, columns) ==
    \E k \in DOMAIN statement.order_by : statement.order_by[k] \notin columns

\* db.execute of SessionQuery for domain d: None when the database refuses
\* it, else the rows of the domain and of the day.  No row has a value in
\* report_id, so the rows come in the order of measurement_uid, which is
\* the order of the table.
QueryDnsObservations(d) ==
    IF UnknownColumn(SessionQuery, obs_dns_columns) THEN None
    ELSE Some(SelectSeq(obs_dns, LAMBDA r : r.domain_name = d /\ InDay(r.timestamp)))

\* SELECT DISTINCT(domain_name) FROM obs_dns WHERE timestamp >= start_day
\* AND timestamp <= end_day
domains_in_a_day ==
    {obs_dns[i].domain_name : i \in {j \in DOMAIN obs_dns : InDay(obs_dns[j].timestamp)}}

\* Python truthiness of an Optional[str]
Truthy(o) == ~IsNone(o) /\ Get(o) # ""

\* The loop of dns_observations_by_session over the rows of the query:
\* last_obs_session_id is assigned only in the branch its own truth guards,
\* so dns_obs.report_id is never read here.
RECURSIVE SessionLoop(_, _, _, _)
SessionLoop(rows, dns_obs_session, last_obs_session_id, yielded) ==
    IF rows = <<>>
    THEN IF Len(dns_obs_session) > 0 THEN Append(yielded, dns_obs_session) ELSE yielded
    ELSE LET dns_obs == Head(rows)
         IN  IF Truthy(last_obs_session_id)
                /\ Get(last_obs_session_id) # Get(getattr(dns_obs, "report_id"))
             THEN SessionLoop(Tail(rows), <<dns_obs>>, getattr(dns_obs, "report_id"),
                              Append(yielded, dns_obs_session))
             ELSE SessionLoop(Tail(rows), Append(dns_obs_session, dns_obs),
                              last_obs_session_id, yielded)

\* the groups yielded, or None when db.execute raises
dns_observations_by_session(d) ==
    IF IsNone(QueryDnsObservations(d)) THEN None
    ELSE Some(SessionLoop(Get(QueryDnsObservations(d)), <<>>, None, <<>>))

\* make_dns_baseline lives in oonidata.verdicts, modelled after the specification: the answers confirmed
\* fleet-wide for the (day, domain), a function of the stored data.
make_dns_baseline(d) == SetToBag(fleet_tls_consistent[d])

\* ALTER TABLE verdict DELETE WHERE report_id = r
DeleteVerdicts(table, r) ==
    [v \in {x \in DOMAIN table : x.report_id # r} |-> table[v]]

\* the ways the calls is_ip_bogon(a) can end for the answers of the model
BogonOutcomes ==
    {f \in [AnswerIPs -> {"True", "False", "ValueError"}] :
        \A a \in AnswerIPs : f[a] \in is_ip_bogon(a)}

\* an answer classified as bogon stays in missing_answers
MissingBeforeCache_bogons_kept(o_list, baseline, bogon) ==
    LET answers == {o_list[i].answer : i \in DOMAIN o_list}
        not_null == {Get(a) : a \in {x \in answers : ~IsNone(x)}}
        kept == {a \in not_null : bogon[a] # "ValueError"}
    IN  kept \ BagToSet(baseline)

\* get_extra_dns_consistency_tls_baseline up to the cache query: the answers
\* of the session, without None, without the answers for which is_ip_bogon
\* returns true or raises ValueError, without the answers of the baseline.
MissingBeforeCache(o_list, baseline, bogon) ==
    LET answers == {o_list[i].answer : i \in DOMAIN o_list}
        not_null == {Get(a) : a \in {x \in answers : ~IsNone(x)}}
        kept == {a \in not_null : bogon[a] = "False"}
    IN  kept \ BagToSet(baseline)

\* the query with its two columns swapped
CacheQuery_swapped(cache, ip_list, d) ==
    {ip \in ip_list : BagIn(<<d, ip>>, cache)}

\* SELECT DISTINCT ip FROM dns_consistency_tls_baseline
\*   WHERE ip IN ip_list AND domain_name = d
CacheQuery(cache, ip_list, d) ==
    {ip \in ip_list : BagIn(<<ip, d>>, cache)}

\* the rows of obs_dns a pass can meet; the pass reads no answer before it
\* ends, so two answers stand for all
RowSeqs == UNION {[1..n -> [session_id : Range(ReportIds), domain_name : Domains,
                            answer : {None, Some("8.8.8.8")},
                            timestamp : Timestamps]] : n \in 0..MaxRows}

InitVerdicts ==
    /\ \E rows \in RowSeqs :
          \* the two domain names are interchangeable: the first row names the first
          /\ rows # <<>> => rows[1].domain_name = "d1.example"
          /\ obs_dns = [i \in DOMAIN rows |->
                        DnsRow(i, rows[i].session_id, rows[i].domain_name, rows[i].answer,
                               rows[i].timestamp)]
    /\ obs_dns_columns \in ObsDnsSchemas
    /\ \E fleet \in FleetChoices : fleet_tls_consistent = [d \in Domains |-> fleet]
    /\ verdict = EmptyBag
    /\ dns_consistency_tls_baseline = EmptyBag
    /\ run = 0
    /\ pc = "idle"
    /\ domains_todo = {}
    /\ domain_name = None
    /\ dns_baseline = EmptyBag
    /\ dns_sessions = <<>>
    /\ dns_o_list = <<>>
    /\ missing_answers = {}
    /\ new_tls_consistent_ips = {}
    /\ rows_to_write = {}
    /\ cache_hits = {}
    /\ probe_calls = EmptyBag
    /\ probe_log = {}
    /\ deleted_report_ids = {}
    /\ pass_exc = None
    /\ IdleBesideVerdicts

\* write_verdicts_to_db(db, generate_website_verdicts(day, ...)) starts, for
\* the first time or after an earlier pass has returned or raised:
\* domains_in_a_day is queried.
StartRun ==
    /\ pc \in {"idle", "raised"}
    /\ run < MaxRuns
    /\ run' = run + 1
    /\ domains_todo' = domains_in_a_day
    /\ deleted_report_ids' = {}
    /\ pass_exc' = None
    /\ domain_name' = None
    /\ dns_baseline' = EmptyBag
    /\ dns_sessions' = <<>>
    /\ dns_o_list' = <<>>
    /\ pc' = "domains"
    /\ UNCHANGED <<obs_dns, obs_dns_columns, fleet_tls_consistent, verdict, dns_consistency_tls_baseline,
                   missing_answers, new_tls_consistent_ips, rows_to_write,
                   cache_hits, probe_calls, probe_log>>
    /\ UNCHANGED vars_beside_verdicts

\* next domain of the loop of generate_website_verdicts: the baselines are
\* made and the DNS observations of the domain are queried and grouped.
\* When the database refuses the query the error leaves the generators and
\* write_verdicts_to_db.
NextDomain ==
    /\ pc = "domains"
    /\ \E d \in domains_todo :
          LET sessions == dns_observations_by_session(d)
          IN  /\ domains_todo' = domains_todo \ {d}
              /\ domain_name' = Some(d)
              /\ dns_baseline' = make_dns_baseline(d)
              /\ IF IsNone(sessions)
                 THEN /\ dns_sessions' = <<>>
                      /\ pass_exc' = Some("DatabaseError")
                      /\ pc' = "raised"
                 ELSE /\ dns_sessions' = Get(sessions)
                      /\ pc' = IF Get(sessions) = <<>> THEN "domains" ELSE "sessions"
                      /\ UNCHANGED pass_exc
    /\ UNCHANGED <<obs_dns, obs_dns_columns, fleet_tls_consistent, verdict,
                   dns_consistency_tls_baseline, run, dns_o_list, missing_answers,
                   new_tls_consistent_ips, rows_to_write, cache_hits, probe_calls, probe_log,
                   deleted_report_ids>>
    /\ UNCHANGED vars_beside_verdicts

\* the generator is exhausted: write_verdicts_to_db returns.
EndRun ==
    /\ pc = "domains"
    /\ domains_todo = {}
    /\ pc' = "idle"
    /\ domain_name' = None
    /\ dns_baseline' = EmptyBag
    /\ UNCHANGED <<obs_dns, obs_dns_columns, fleet_tls_consistent, verdict, dns_consistency_tls_baseline,
                   run, domains_todo, dns_sessions, dns_o_list,
                   missing_answers, new_tls_consistent_ips, rows_to_write,
                   cache_hits, probe_calls, probe_log, deleted_report_ids, pass_exc>>
    /\ UNCHANGED vars_beside_verdicts

\* websites_observation_group takes the first group of the domain and reads
\* dns_obs_list[0].report_id.  A DNSObservation has no such attribute: the
\* AttributeError leaves the generators and write_verdicts_to_db, and the
\* pass ends before a DELETE is issued or a group handed on.  (With the
\* attribute, the verdicts of that report id would be dropped and the group
\* yielded.)
websites_observation_group ==
    /\ pc = "sessions"
    /\ Len(dns_sessions) > 0
    /\ LET dns_obs_list == dns_sessions[1]
           report_id == getattr(dns_obs_list[1], "report_id")
       IN  /\ dns_o_list' = dns_obs_list
           /\ IF IsNone(report_id)
              THEN /\ pass_exc' = Some("AttributeError")
                   /\ pc' = "raised"
                   /\ UNCHANGED <<verdict, deleted_report_ids>>
              ELSE /\ verdict' = DeleteVerdicts(verdict, Get(report_id))
                   /\ deleted_report_ids' = deleted_report_ids \cup {Get(report_id)}
                   /\ pc' = "yielded"
                   /\ UNCHANGED pass_exc
    /\ UNCHANGED <<obs_dns, obs_dns_columns, fleet_tls_consistent, dns_consistency_tls_baseline, run,
                   domains_todo, domain_name, dns_baseline, dns_sessions,
                   missing_answers, new_tls_consistent_ips, rows_to_write,
                   cache_hits, probe_calls, probe_log>>
    /\ UNCHANGED vars_beside_verdicts

NextVerdicts ==
    \/ StartRun
    \/ NextDomain
    \/ EndRun
    \/ websites_observation_group

(***************************************************************************)
(* get_extra_dns_consistency_tls_baseline (processing.py), called with a   *)
(* baseline and the DNS observations of a session, one call after the     *)
(* other on the same cache table.                                          *)
(***************************************************************************)
\* the answers, ranked
AnswerRank(a) ==
    CASE a = None -> 0
      [] a = Some("8.8.8.8") -> 1
      [] a = Some("10.0.0.1") -> 2
      [] a = Some("fc00::1") -> 3
      [] OTHER -> 4

\* the DNS observations of one domain a caller hands over, repeated answers
\* included; the answers are read into a set (set(map(lambda a: a.answer,
\* dns_o_list))), so one order of them stands for all
ObsLists ==
    UNION {{[i \in 1..n |-> DnsRow(i, ReportIds[(i % 2) + 1], d, answers[i], 43200)] :
               d \in Domains,
               answers \in {f \in [1..n -> DnsAnswers] :
                               \A i \in 1..(n - 1) : AnswerRank(f[i]) <= AnswerRank(f[i + 1])}} :
           n \in 1..MaxRows}

InitExtend ==
    /\ obs_dns = <<>>
    /\ obs_dns_columns = DNSObservationFields
    /\ fleet_tls_consistent = <<>>
    /\ verdict = EmptyBag
    /\ dns_consistency_tls_baseline = EmptyBag
    /\ run = 0
    /\ pc = "call"
    /\ domains_todo = {}
    /\ domain_name = None
    /\ dns_baseline = EmptyBag
    /\ dns_sessions = <<>>
    /\ dns_o_list = <<>>
    /\ missing_answers = {}
    /\ new_tls_consistent_ips = {}
    /\ rows_to_write = {}
    /\ cache_hits = {}
    /\ probe_calls = EmptyBag
    /\ probe_log = {}
    /\ deleted_report_ids = {}
    /\ pass_exc = None
    /\ IdleBesideVerdicts

\* get_extra_dns_consistency_tls_baseline(dns_baseline, dns_o_list, db), to
\* the end of the cache query.
GetExtraQueryCache ==
    /\ pc = "call"
    /\ run < MaxRuns
    /\ run' = run + 1
    /\ \E o_list \in ObsLists, fleet \in FleetChoices, bogon \in BogonOutcomes :
          LET baseline == SetToBag(fleet)
              missing == MissingBeforeCache(o_list, baseline, bogon)
              res == CacheQuery(dns_consistency_tls_baseline, missing,
                                o_list[1].domain_name)
          IN  /\ dns_o_list' = o_list
              /\ dns_baseline' = baseline
              /\ missing_answers' = missing \ res
              /\ new_tls_consistent_ips' = res
              /\ cache_hits' = res
    /\ rows_to_write' = {}
    /\ probe_calls' = EmptyBag
    /\ pc' = "probe"
    /\ UNCHANGED <<obs_dns, obs_dns_columns, fleet_tls_consistent, verdict, dns_consistency_tls_baseline,
                   domains_todo, domain_name, dns_sessions, probe_log,
                   deleted_report_ids, pass_exc>>
    /\ UNCHANGED vars_beside_verdicts

\* one iteration of "for ip in missing_answers": is_tls_valid(ip, domain_name)
\* answers true or false.
ProbeTls ==
    /\ pc = "probe"
    /\ \E ip \in missing_answers \ BagToSet(probe_calls) : \E ok \in BOOLEAN :
          /\ probe_calls' = probe_calls (+) SetToBag({ip})
          /\ probe_log' = probe_log \cup {<<ip, dns_o_list[1].domain_name, ok>>}
          /\ rows_to_write' =
                IF ok THEN rows_to_write \cup {<<ip, dns_o_list[1].domain_name>>}
                ELSE rows_to_write
          /\ new_tls_consistent_ips' =
                IF ok THEN new_tls_consistent_ips \cup {ip} ELSE new_tls_consistent_ips
    /\ UNCHANGED <<obs_dns, obs_dns_columns, fleet_tls_consistent, verdict, dns_consistency_tls_baseline,
                   run, pc, domains_todo, domain_name, dns_baseline, dns_sessions,
                   dns_o_list, missing_answers, cache_hits,
                   deleted_report_ids, pass_exc>>
    /\ UNCHANGED vars_beside_verdicts

\* INSERT INTO dns_consistency_tls_baseline of the rows to write
InsertRows(cache, rows) == cache (+) SetToBag(rows)

\* the loop is over: the rows are inserted when there are any, and
\* get_extra_dns_consistency_tls_baseline returns new_tls_consistent_ips;
\* its arguments and its other locals end with the call.
GetExtraInsert ==
    /\ pc = "probe"
    /\ missing_answers \subseteq BagToSet(probe_calls)
    /\ dns_consistency_tls_baseline' =
          IF Cardinality(rows_to_write) > 0
          THEN InsertRows(dns_consistency_tls_baseline, rows_to_write)
          ELSE dns_consistency_tls_baseline
    /\ pc' = "call"
    /\ dns_o_list' = <<>>
    /\ dns_baseline' = EmptyBag
    /\ missing_answers' = {}
    /\ rows_to_write' = {}
    /\ cache_hits' = {}
    /\ probe_calls' = EmptyBag
    /\ UNCHANGED <<obs_dns, obs_dns_columns, fleet_tls_consistent, verdict, run, domains_todo,
                   domain_name, dns_sessions, new_tls_consistent_ips, probe_log,
                   deleted_report_ids, pass_exc>>
    /\ UNCHANGED vars_beside_verdicts

NextExtend ==
    \/ GetExtraQueryCache
    \/ ProbeTls
    \/ GetExtraInsert

(***************************************************************************)
(* Properties of the verdict-generation pass.                              *)
(***************************************************************************)

\* the maximal runs of adjacent rows with the same session id
RECURSIVE AdjacentRuns(_, _)
AdjacentRuns(rows, acc) ==
    IF rows = <<>> THEN acc
    ELSE IF acc # <<>> /\ acc[Len(acc)][1].session_id = Head(rows).session_id
         THEN AdjacentRuns(Tail(rows),
                           [acc EXCEPT ![Len(acc)] = Append(acc[Len(acc)], Head(rows))])
         ELSE AdjacentRuns(Tail(rows), Append(acc, <<Head(rows)>>))

SessionChanges(rows) ==
    Cardinality({i \in 2..Len(rows) : rows[i].session_id # rows[i - 1].session_id})

\* C1: dns_observations_by_session starts a new group exactly when a row's
\* session id differs from the preceding row's: the groups are the maximal
\* runs of adjacent rows with equal session id, 1 + the number of adjacent
\* changes of them.
C1_AdjacencyGrouping ==
    pc = "sessions" =>
        LET rows == Get(QueryDnsObservations(Get(domain_name)))
        IN  /\ dns_sessions = AdjacentRuns(rows, <<>>)
            /\ Len(dns_sessions) = 1 + SessionChanges(rows)

\* C4: the cache holds every (ip, domain) pair at most once, over all calls.
C4_CacheRowOnce ==
    \A p \in BagToSet(dns_consistency_tls_baseline) :
        CopiesIn(p, dns_consistency_tls_baseline) = 1

\* a later call meets a pair the cache already holds
C4_Witness ==
    /\ run >= 2
    /\ pc = "probe"
    /\ cache_hits # {}
    /\ dns_consistency_tls_baseline # EmptyBag

\* C5: is_tls_valid is called only for answers of the session that are in
\* no bogon range, not in the baseline and not in the cache for the domain,
\* and once per answer.
C5_ProbeOnlyEligible ==
    pc = "probe" =>
        \A ip \in BagToSet(probe_calls) :
            /\ CopiesIn(ip, probe_calls) = 1
            /\ \E i \in DOMAIN dns_o_list : dns_o_list[i].answer = Some(ip)
            /\ ~InBogonTables(ip)
            /\ ~BagIn(ip, dns_baseline)
            /\ ~BagIn(<<ip, dns_o_list[1].domain_name>>, dns_consistency_tls_baseline)

\* the probes of a session are over: one of its answers was probed, and a
\* private-network answer of the same session was not
C5_Witness ==
    /\ pc = "probe"
    /\ missing_answers \subseteq BagToSet(probe_calls)
    /\ probe_calls # EmptyBag
    /\ \E i \in DOMAIN dns_o_list :
          /\ dns_o_list[i].answer = Some("10.0.0.1")
          /\ ~BagIn("10.0.0.1", probe_calls)

(***************************************************************************)
(* The TLS handshake / network-event correlator and the TLS observation    *)
(* builder (observations.py).                                              *)
(***************************************************************************)
\* events of a generated timeline
MaxEvents == 3

NetworkEvent(operation, t, address, num_bytes) ==
    [operation |-> operation, t |-> t, address |-> address, num_bytes |-> num_bytes]

\* urlsplit("//" + address): hostname and port of the sample addresses
AddressParts ==
    ("1.1.1.1:443" :> [hostname |-> "1.1.1.1", port |-> 443]) @@
    ("2.2.2.2:8443" :> [hostname |-> "2.2.2.2", port |-> 8443])

urlsplit(address) == AddressParts[address]

\* Python truthiness of an Optional[int]
TruthyInt(o) == ~IsNone(o) /\ Get(o) # 0

network_events_until_connect(events) ==
    LET connects == {i \in DOMAIN events : events[i].operation = "connect"}
        stop == IF connects = {} THEN Len(events) + 1
                ELSE CHOOSE i \in connects : \A j \in connects : i <= j
    IN  SubSeq(events, 1, stop - 1)

\* the loop of find_tls_handshake_network_events from index idx on, with
\* the window accumulated so far
RECURSIVE FindLoop(_, _, _, _)
FindLoop(h, events, idx, current_event_window) ==
    IF idx > Len(events) THEN None
    ELSE LET ne == events[idx]
             window == Append(IF ne.operation = "connect" THEN <<>>
                              ELSE current_event_window, ne)
         IN  IF ne.operation = "tls_handshake_done" /\ ne.t = h.t
             THEN Some(window \o
                       network_events_until_connect(SubSeq(events, idx, Len(events))))
             ELSE FindLoop(h, events, idx + 1, window)

\* as FindLoop, the timestamp of tls_handshake_done not compared
RECURSIVE FindLoop_any_done(_, _, _, _)
FindLoop_any_done(h, events, idx, current_event_window) ==
    IF idx > Len(events) THEN None
    ELSE LET ne == events[idx]
             window == Append(IF ne.operation = "connect" THEN <<>>
                              ELSE current_event_window, ne)
         IN  IF ne.operation = "tls_handshake_done"
             THEN Some(window \o
                       network_events_until_connect(SubSeq(events, idx, Len(events))))
             ELSE FindLoop_any_done(h, events, idx + 1, window)

find_tls_handshake_network_events_any_done(h, events) ==
    IF IsNone(events) \/ Get(events) = <<>> THEN None
    ELSE FindLoop_any_done(h, Get(events), 1, <<>>)

find_tls_handshake_network_events(h, events) ==
    IF IsNone(events) \/ Get(events) = <<>> THEN None
    ELSE FindLoop(h, Get(events), 1, <<>>)

\* get_certificate_meta on the sample certificates: the metadata of a DER
\* certificate, or an exception for bytes that are no certificate
CertificateMeta ==
    ("der:leaf" :> [fingerprint |-> "sha256:leaf", subject_common_name |-> "d1.example",
                    issuer_common_name |-> "ca", san_list |-> <<"d1.example">>]) @@
    ("der:ca" :> [fingerprint |-> "sha256:ca", subject_common_name |-> "ca",
                  issuer_common_name |-> "ca", san_list |-> <<>>])

get_certificate_meta(peer_cert) ==
    IF peer_cert \in DOMAIN CertificateMeta THEN Some(CertificateMeta[peer_cert]) ELSE None

CertFailures == {"ssl_invalid_hostname", "ssl_unknown_authority", "ssl_invalid_certificate"}

\* the counters and the last operation over the events of the window
TlsCounters ==
    [read_count |-> 0, write_count |-> 0, read_bytes |-> 0, write_bytes |-> 0,
     last_operation |-> None]

RECURSIVE CountEvents(_, _)
CountEvents(events, c) ==
    IF events = <<>> THEN c
    ELSE LET ne == Head(events)
             c1 == IF ne.operation = "write"
                   THEN LET w == IF TruthyInt(ne.num_bytes)
                                 THEN [c EXCEPT !.write_count = @ + 1,
                                                !.write_bytes = @ + Get(ne.num_bytes)]
                                 ELSE c
                        IN  [w EXCEPT !.last_operation = Some(<<"write", w.write_count>>)]
                   ELSE IF ne.operation = "read" /\ TruthyInt(ne.num_bytes)
                   THEN LET r == [c EXCEPT !.read_count = @ + 1,
                                           !.read_bytes = @ + Get(ne.num_bytes)]
                        IN  [r EXCEPT !.last_operation = Some(<<"read", r.read_count>>)]
                   ELSE c
         IN  CountEvents(Tail(events), c1)

OrEmpty(o) == IF Truthy(o) THEN Get(o) ELSE ""

normalize_failure(failure) == failure

\* TLSObservation.from_measurement; last_operation <<op, n>> stands for the
\* label "op_n".  The base observation metadata is left out.
TLSObservation_from_measurement(h, events, idx, ip_map) ==
    LET has_address == Truthy(h.address)
        correlated == find_tls_handshake_network_events(h, events)
        found == ~IsNone(correlated) /\ Get(correlated) # <<>>
        window == Get(correlated)
        first_address == found /\ Truthy(window[1].address)
        ip == IF first_address THEN Some(urlsplit(Get(window[1].address)).hostname)
              ELSE IF has_address THEN Some(urlsplit(Get(h.address)).hostname)
              ELSE None
        port == IF first_address THEN Some(urlsplit(Get(window[1].address)).port)
                ELSE IF has_address THEN Some(urlsplit(Get(h.address)).port)
                ELSE None
        counters == IF found THEN CountEvents(window, TlsCounters) ELSE TlsCounters
        has_certs == ~IsNone(h.peer_certificates) /\ Get(h.peer_certificates) # <<>>
        meta == IF has_certs THEN get_certificate_meta(Get(h.peer_certificates)[1])
                ELSE None
    IN  [observation_idx |-> idx,
         server_name |-> OrEmpty(h.server_name),
         domain_name |->
            IF first_address
            THEN (IF Get(ip) \in DOMAIN ip_map THEN ip_map[Get(ip)] ELSE "")
            ELSE OrEmpty(h.server_name),
         tls_version |-> OrEmpty(h.tls_version),
         cipher_suite |-> OrEmpty(h.cipher_suite),
         failure |-> normalize_failure(h.failure),
         ip |-> ip,
         port |-> port,
         is_certificate_valid |->
            IF h.no_tls_verify = Some(FALSE)
            THEN (IF ~IsNone(normalize_failure(h.failure))
                     /\ Get(normalize_failure(h.failure)) \in CertFailures
                  THEN Some(FALSE)
                  ELSE IF ~Truthy(normalize_failure(h.failure)) THEN Some(TRUE)
                  ELSE None)
            ELSE None,
         tls_handshake_time |->
            IF found THEN Some(window[Len(window)].t - window[1].t) ELSE None,
         tls_handshake_read_count |-> IF found THEN Some(counters.read_count) ELSE None,
         tls_handshake_write_count |-> IF found THEN Some(counters.write_count) ELSE None,
         tls_handshake_read_bytes |-> IF found THEN Some(counters.read_bytes) ELSE None,
         tls_handshake_write_bytes |-> IF found THEN Some(counters.write_bytes) ELSE None,
         tls_handshake_last_operation |-> counters.last_operation,
         certificate_chain_length |->
            IF has_certs THEN Some(Len(Get(h.peer_certificates))) ELSE None,
         end_entity_certificate_fingerprint |->
            IF IsNone(meta) THEN None ELSE Some(Get(meta).fingerprint),
         end_entity_certificate_subject_common_name |->
            IF IsNone(meta) THEN None ELSE Some(Get(meta).subject_common_name),
         end_entity_certificate_issuer_common_name |->
            IF IsNone(meta) THEN None ELSE Some(Get(meta).issuer_common_name),
         end_entity_certificate_san_list |->
            IF IsNone(meta) THEN <<>> ELSE Get(meta).san_list]

EventTemplates ==
    {[operation |-> "connect", address |-> a, num_bytes |-> None] :
        a \in {None, Some("1.1.1.1:443")}}
    \cup {[operation |-> "read", address |-> Some("1.1.1.1:443"), num_bytes |-> Some(n)] :
            n \in {0, 3}}
    \cup {[operation |-> "write", address |-> Some("1.1.1.1:443"), num_bytes |-> n] :
            n \in {None, Some(0), Some(3)}}
    \cup {[operation |-> "tls_handshake_done", address |-> Some("1.1.1.1:443"),
           num_bytes |-> None]}

\* generated timelines: the timestamp of an event is its position
Timed(templates) ==
    [i \in DOMAIN templates |->
        NetworkEvent(templates[i].operation, i, templates[i].address,
                     templates[i].num_bytes)]

GeneratedTimelines ==
    UNION {{Timed(s) : s \in [1..n -> EventTemplates]} : n \in 0..MaxEvents}

\* the timeline of section 8: a handshake done at t = 5, then a second connection
SpecTimeline ==
    <<NetworkEvent("connect", 1, Some("1.1.1.1:443"), None),
      NetworkEvent("write", 2, Some("1.1.1.1:443"), Some(3)),
      NetworkEvent("read", 3, Some("1.1.1.1:443"), Some(3)),
      NetworkEvent("tls_handshake_done", 5, Some("1.1.1.1:443"), None),
      NetworkEvent("connect", 6, Some("1.1.1.1:443"), None),
      NetworkEvent("write", 7, Some("1.1.1.1:443"), Some(3))>>

Timelines == {None} \cup {Some(s) : s \in GeneratedTimelines \cup {SpecTimeline}}

TLSHandshake(t, address, no_tls_verify, failure, peer_certificates) ==
    [t |-> t, address |-> address, no_tls_verify |-> no_tls_verify,
     failure |-> failure, server_name |-> Some("d1.example"),
     tls_version |-> Some("TLSv1.3"), cipher_suite |-> None,
     peer_certificates |-> peer_certificates]

PeerCertificateChoices ==
    {None, Some(<<"der:leaf", "der:ca">>), Some(<<"not-der">>)}

Handshakes ==
    {TLSHandshake(t, a, Some(FALSE), None, c) :
        t \in (0..MaxEvents) \cup {5},
        a \in {None, Some("2.2.2.2:8443")},
        c \in PeerCertificateChoices}

\* tls_h.failure: absent, empty, a certificate failure or another failure
HandshakeFailures ==
    {None, Some("")} \cup {Some(f) : f \in CertFailures}
        \cup {Some("generic_timeout_error"), Some("eof_error")}

\* handshakes with every value of no_tls_verify, absent included, and of failure
VerifyHandshakes ==
    {TLSHandshake(5, Some("2.2.2.2:8443"), v, f, None) :
        v \in {None, Some(FALSE), Some(TRUE)}, f \in HandshakeFailures}

InitTLS ==
    /\ \E input \in (Handshakes \X Timelines)
                        \cup (VerifyHandshakes \X {None, Some(SpecTimeline)}) :
          /\ tls_h = input[1]
          /\ network_events = input[2]
    /\ ip_to_domain \in {<<>>, "1.1.1.1" :> "d1.example"}
    /\ tls_pc = "input"
    /\ tls_network_events = None
    /\ tlso = None
    /\ IdleBesideTLS

\* make_tls_observations builds the observation of the handshake
MakeTlsObservation ==
    /\ tls_pc = "input"
    /\ tls_network_events' = find_tls_handshake_network_events(tls_h, network_events)
    /\ tlso' = Some(TLSObservation_from_measurement(tls_h, network_events, 0,
                                                    ip_to_domain))
    /\ tls_pc' = "done"
    /\ UNCHANGED <<tls_h, network_events, ip_to_domain>>
    /\ UNCHANGED vars_beside_tls

NextTLS == MakeTlsObservation

(***************************************************************************)
(* Properties of the correlator and of the TLS observation.                *)
(***************************************************************************)
MatchingEvents(h, events) ==
    IF IsNone(events) THEN {}
    ELSE {i \in DOMAIN Get(events) :
            Get(events)[i].operation = "tls_handshake_done" /\ Get(events)[i].t = h.t}

Least(S) == CHOOSE i \in S : \A j \in S : i <= j
Greatest(S) == CHOOSE i \in S : \A j \in S : i >= j

\* from the most recent connect through the first matching tls_handshake_done
\* and on to the event before the next connect
ClaimedWindow(h, events) ==
    LET m == Least(MatchingEvents(h, Some(events)))
        connects == {i \in DOMAIN events : events[i].operation = "connect"}
        before == {i \in connects : i <= m}
        after == {i \in connects : i > m}
        first == IF before = {} THEN 1 ELSE Greatest(before)
        last == IF after = {} THEN Len(events) ELSE Least(after) - 1
    IN  SubSeq(events, first, last)

\* C7: for a handshake whose timestamp is that of a tls_handshake_done event
\* the correlator returns the events from the most recent connect through
\* that event and on to the event before the next connect, each once, in
\* timeline order.
C7_CorrelatedWindow ==
    (tls_pc = "done" /\ MatchingEvents(tls_h, network_events) # {}) =>
        tls_network_events = Some(ClaimedWindow(tls_h, Get(network_events)))

TimingUnset(o) ==
    /\ IsNone(o.tls_handshake_time)
    /\ IsNone(o.tls_handshake_read_count)
    /\ IsNone(o.tls_handshake_write_count)
    /\ IsNone(o.tls_handshake_read_bytes)
    /\ IsNone(o.tls_handshake_write_bytes)
    /\ IsNone(o.tls_handshake_last_operation)

CertificateUnset(o) ==
    /\ IsNone(o.certificate_chain_length)
    /\ IsNone(o.end_entity_certificate_fingerprint)
    /\ IsNone(o.end_entity_certificate_subject_common_name)
    /\ IsNone(o.end_entity_certificate_issuer_common_name)
    /\ o.end_entity_certificate_san_list = <<>>

\* C8 as stated: without a matching tls_handshake_done there is no
\* correlation and the timing, ip, port and certificate fields are unset.
C8_NoCorrelationAllUnset ==
    (tls_pc = "done" /\ MatchingEvents(tls_h, network_events) = {}) =>
        /\ IsNone(tls_network_events)
        /\ TimingUnset(Get(tlso))
        /\ IsNone(Get(tlso).ip)
        /\ IsNone(Get(tlso).port)
        /\ CertificateUnset(Get(tlso))

\* C8 amended: without a matching tls_handshake_done there is no correlation
\* and the timing fields are unset; ip and port are those of the handshake's
\* own address (unset without one), and the certificate fields are unset
\* exactly when the handshake carries no peer certificates.
C8_NoCorrelationTimingUnset ==
    (tls_pc = "done" /\ MatchingEvents(tls_h, network_events) = {}) =>
        /\ IsNone(tls_network_events)
        /\ TimingUnset(Get(tlso))
        /\ IF IsNone(tls_h.address)
           THEN IsNone(Get(tlso).ip) /\ IsNone(Get(tlso).port)
           ELSE /\ Get(tlso).ip = Some(urlsplit(Get(tls_h.address)).hostname)
                /\ Get(tlso).port = Some(urlsplit(Get(tls_h.address)).port)
        /\ IsNone(tls_h.peer_certificates) <=> CertificateUnset(Get(tlso))

\* a timeline with a tls_handshake_done at another time, a handshake with an
\* address and certificates: no correlation, ip and certificate fields set
C8_Witness ==
    /\ tls_pc = "done"
    /\ MatchingEvents(tls_h, network_events) = {}
    /\ ~IsNone(network_events)
    /\ \E i \in DOMAIN Get(network_events) :
          Get(network_events)[i].operation = "tls_handshake_done"
    /\ ~IsNone(Get(tlso).ip)
    /\ ~IsNone(Get(tlso).end_entity_certificate_fingerprint)

\* verification of the certificate was explicitly disabled for the handshake
VerificationDisabled(h) == h.no_tls_verify = Some(TRUE)

\* C19: unless verification was explicitly disabled, is_certificate_valid
\* is false for the three certificate failures, true without a failure and
\* unset for any other failure; it is unset when verification was
\* explicitly disabled
C19_CertificateValidity ==
    tls_pc = "done" =>
        Get(tlso).is_certificate_valid =
            IF VerificationDisabled(tls_h) THEN None
            ELSE IF ~IsNone(tls_h.failure) /\ Get(tls_h.failure) \in CertFailures THEN Some(FALSE)
            ELSE IF ~Truthy(tls_h.failure) THEN Some(TRUE)
            ELSE None

\* the correlator returned a window that is not empty
Correlated == ~IsNone(tls_network_events) /\ Get(tls_network_events) # <<>>

\* C23: when the handshake records an address the ip and port of the
\* observation are those of that address; the address of the first event of
\* the correlated window is used only when the handshake records none
C23_HandshakeAddressFirst ==
    tls_pc = "done" =>
        IF Truthy(tls_h.address)
        THEN /\ Get(tlso).ip = Some(urlsplit(Get(tls_h.address)).hostname)
             /\ Get(tlso).port = Some(urlsplit(Get(tls_h.address)).port)
        ELSE IF Correlated /\ Truthy(Get(tls_network_events)[1].address)
        THEN /\ Get(tlso).ip
                  = Some(urlsplit(Get(Get(tls_network_events)[1].address)).hostname)
             /\ Get(tlso).port
                  = Some(urlsplit(Get(Get(tls_network_events)[1].address)).port)
        ELSE Get(tlso).ip = None /\ Get(tlso).port = None

\* a read or write event that reports a positive byte count
Transfers(ne, operation) ==
    ne.operation = operation /\ ~IsNone(ne.num_bytes) /\ Get(ne.num_bytes) > 0

\* the events of the kind among the first n of the window
TransfersUpTo(window, operation, n) ==
    {i \in 1..n : Transfers(window[i], operation)}

RECURSIVE BytesOf(_, _)
BytesOf(window, operation) ==
    IF window = <<>> THEN 0
    ELSE (IF Transfers(Head(window), operation) THEN Get(Head(window).num_bytes) ELSE 0)
            + BytesOf(Tail(window), operation)

\* the label of the most recent read or write with a positive byte count
LastTransferLabel(window) ==
    LET at == TransfersUpTo(window, "read", Len(window))
                \cup TransfersUpTo(window, "write", Len(window))
        last == CHOOSE i \in at : \A j \in at : j <= i
    IN  IF at = {} THEN None
        ELSE Some(<<window[last].operation,
                    Cardinality(TransfersUpTo(window, window[last].operation, last))>>)

\* C24: over a correlated window the read and write counts and byte totals
\* count exactly the read and write events with a positive byte count, and
\* the last operation is the label of the most recent such event with its
\* count so far; events with a zero or missing byte count change nothing
C24_TransferCounters ==
    (tls_pc = "done" /\ Correlated) =>
        LET window == Get(tls_network_events) IN
        /\ Get(tlso).tls_handshake_read_count
              = Some(Cardinality(TransfersUpTo(window, "read", Len(window))))
        /\ Get(tlso).tls_handshake_write_count
              = Some(Cardinality(TransfersUpTo(window, "write", Len(window))))
        /\ Get(tlso).tls_handshake_read_bytes = Some(BytesOf(window, "read"))
        /\ Get(tlso).tls_handshake_write_bytes = Some(BytesOf(window, "write"))
        /\ Get(tlso).tls_handshake_last_operation = LastTransferLabel(window)

(***************************************************************************)
(* HTTP observations.  Text is a sequence of code points, bytes are a      *)
(* sequence of octets.                                                     *)
(***************************************************************************)
MaxTx == 2

Continuation(b, i) == i <= Len(b) /\ b[i] >= 128 /\ b[i] <= 191

\* bytes.decode("utf-8"): the code points, or None for UnicodeDecodeError
RECURSIVE Utf8DecodeFrom(_, _, _)
Utf8DecodeFrom(b, i, acc) ==
    IF i > Len(b) THEN Some(acc)
    ELSE IF b[i] < 128 THEN Utf8DecodeFrom(b, i + 1, Append(acc, b[i]))
    ELSE IF b[i] >= 194 /\ b[i] <= 223 THEN
        IF Continuation(b, i + 1)
        THEN Utf8DecodeFrom(b, i + 2,
                 Append(acc, (b[i] - 192) * 64 + (b[i + 1] - 128)))
        ELSE None
    ELSE IF b[i] >= 224 /\ b[i] <= 239 THEN
        IF Continuation(b, i + 1) /\ Continuation(b, i + 2)
        THEN LET cp == (b[i] - 224) * 4096 + (b[i + 1] - 128) * 64
                       + (b[i + 2] - 128)
             IN  IF cp < 2048 \/ (cp >= 55296 /\ cp <= 57343) THEN None
                 ELSE Utf8DecodeFrom(b, i + 3, Append(acc, cp))
        ELSE None
    ELSE IF b[i] >= 240 /\ b[i] <= 244 THEN
        IF Continuation(b, i + 1) /\ Continuation(b, i + 2) /\ Continuation(b, i + 3)
        THEN LET cp == (b[i] - 240) * 262144 + (b[i + 1] - 128) * 4096
                       + (b[i + 2] - 128) * 64 + (b[i + 3] - 128)
             IN  IF cp < 65536 \/ cp > 1114111 THEN None
                 ELSE Utf8DecodeFrom(b, i + 4, Append(acc, cp))
        ELSE None
    ELSE None

utf8_decode(b) == Utf8DecodeFrom(b, 1, <<>>)

HeaderNames == {"Location", "location", "Server"}

\* str.lower() on the header names in use
lower(k) ==
    CASE k = "Location" -> "location"
      [] k = "LOCATION" -> "location"
      [] k = "Server" -> "server"
      [] OTHER -> k

RECURSIVE FirstHeaderFrom(_, _, _, _)
FirstHeaderFrom(header_name, header_list, case_sensitive, i) ==
    IF i > Len(header_list) THEN <<>>
    ELSE LET k == IF case_sensitive = FALSE THEN lower(header_list[i][1])
                  ELSE header_list[i][1]
         IN  IF header_name = k THEN header_list[i][2]
             ELSE FirstHeaderFrom(header_name, header_list, case_sensitive, i + 1)

\* header_list: the sequence of <<name, value>> pairs (empty for a falsy list)
get_first_http_header(header_name, header_list, case_sensitive) ==
    IF header_list = <<>> THEN <<>>
    ELSE FirstHeaderFrom(IF case_sensitive = FALSE THEN lower(header_name) ELSE header_name,
                         header_list, case_sensitive, 1)

\* headers_list_bytes or []
OrEmptyList(x) == IF IsNone(x) THEN <<>> ELSE Get(x)

CaughtExceptions == {"IndexError", "UnicodeDecodeError", "AttributeError"}

\* the body of the try block: the exception it raises, or the value assigned
\* to request_redirect_from (None when the comparison fails)
RedirectAttribution(idx, rlist, request_url) ==
    IF IsNone(rlist) THEN [exc |-> Some("TypeError"), value |-> None]
    ELSE IF idx + 2 > Len(Get(rlist)) THEN [exc |-> Some("IndexError"), value |-> None]
    ELSE LET prev_request == Get(rlist)[idx + 2] IN
        IF IsNone(prev_request.response)
        THEN [exc |-> Some("AttributeError"), value |-> None]
        ELSE LET prev_location ==
                    utf8_decode(get_first_http_header("location",
                        OrEmptyList(Get(prev_request.response).headers_list_bytes), FALSE))
             IN  IF IsNone(prev_location)
                 THEN [exc |-> Some("UnicodeDecodeError"), value |-> None]
                 ELSE IF Get(prev_location) # request_url
                 THEN [exc |-> None, value |-> None]
                 ELSE IF IsNone(prev_request.request)
                 THEN [exc |-> Some("AttributeError"), value |-> None]
                 ELSE [exc |-> None, value |-> Some(Get(prev_request.request).url)]

\* the observation (None for a transaction without a request) and the
\* exception that leaves the call, if any
HTTPObservation_from_measurement(idx, rlist, http_transaction) ==
    IF IsNone(http_transaction.request) THEN [raised |-> None, hrro |-> None]
    ELSE LET url == Get(http_transaction.request).url
             hrro == [observation_idx |-> idx,
                      request_url |-> url,
                      has_response |-> FALSE,
                      response_header_location |-> None,
                      response_header_server |-> None,
                      request_redirect_from |-> None]
         IN
         IF IsNone(http_transaction.response) THEN [raised |-> None, hrro |-> Some(hrro)]
         ELSE LET headers == OrEmptyList(Get(http_transaction.response).headers_list_bytes)
                  with_response ==
                      [hrro EXCEPT
                          !.has_response = TRUE,
                          !.response_header_location =
                              Some(get_first_http_header("location", headers, FALSE)),
                          !.response_header_server =
                              Some(get_first_http_header("server", headers, FALSE))]
                  attribution == RedirectAttribution(idx, rlist, url)
              IN  IF IsNone(attribution.exc)
                  THEN [raised |-> None,
                        hrro |-> Some([with_response EXCEPT
                                 !.request_redirect_from = attribution.value])]
                  ELSE IF Get(attribution.exc) \in CaughtExceptions
                  THEN [raised |-> None, hrro |-> Some(with_response)]
                  ELSE [raised |-> attribution.exc, hrro |-> None]

\* request URLs: "", "a" and "é"
Urls == {<<>>, <<97>>, <<233>>}

\* header values: "", "a", "é" and an octet that is not UTF-8
HeaderValues == {<<>>, <<97>>, <<195, 169>>, <<255>>}

HeaderLists ==
    {None, Some(<<>>)}
    \cup {Some(<<<<k, v>>>>) : k \in {"Location", "location"}, v \in HeaderValues}
    \cup {Some(<<<<"Server", <<97>>>>>>),
          Some(<<<<"Server", <<97>>>>, <<"Location", <<97>>>>>>),
          Some(<<<<"Location", <<97>>>>, <<"Location", <<195, 169>>>>>>),
          Some(<<<<"Location", <<195, 169>>>>, <<"Location", <<97>>>>>>)}

Requests == {None} \cup {Some([url |-> u]) : u \in Urls}

Responses == {None} \cup {Some([headers_list_bytes |-> h]) : h \in HeaderLists}

HTTPTransactions == [request : Requests, response : Responses]

InitHTTP ==
    /\ requests_list \in
          {None} \cup {Some(s) : s \in UNION {[1..n -> HTTPTransactions] : n \in 0..MaxTx}}
    /\ http_pc = "input"
    /\ http_idx = 0
    /\ http_observations = <<>>
    /\ http_raised = None
    /\ IdleBesideHTTP

\* make_http_observations: nothing for a falsy list, else the loop
make_http_observations ==
    /\ http_pc = "input"
    /\ http_pc' = IF IsNone(requests_list) \/ requests_list = Some(<<>>)
                  THEN "done" ELSE "loop"
    /\ UNCHANGED <<requests_list, http_idx, http_observations, http_raised>>
    /\ UNCHANGED vars_beside_http

\* the observation is put before those already yielded
Yield_in_front(observations, httpo) ==
    IF IsNone(httpo) THEN observations ELSE <<Get(httpo)>> \o observations

\* if httpo: yield httpo
Yield(observations, httpo) ==
    IF IsNone(httpo) THEN observations ELSE Append(observations, Get(httpo))

\* one iteration of the loop over enumerate(requests_list)
HttpTransaction ==
    /\ http_pc = "loop"
    /\ http_idx < Len(Get(requests_list))
    /\ LET r == HTTPObservation_from_measurement(http_idx, requests_list,
                    Get(requests_list)[http_idx + 1])
       IN  IF ~IsNone(r.raised)
           THEN /\ http_raised' = r.raised
                /\ http_pc' = "done"
                /\ UNCHANGED <<http_idx, http_observations>>
           ELSE /\ http_observations' = Yield(http_observations, r.hrro)
                /\ http_idx' = http_idx + 1
                /\ UNCHANGED <<http_pc, http_raised>>
    /\ UNCHANGED requests_list
    /\ UNCHANGED vars_beside_http

HttpLoopEnd ==
    /\ http_pc = "loop"
    /\ http_idx = Len(Get(requests_list))
    /\ http_pc' = "done"
    /\ UNCHANGED <<requests_list, http_idx, http_observations, http_raised>>
    /\ UNCHANGED vars_beside_http

NextHTTP == make_http_observations \/ HttpTransaction \/ HttpLoopEnd

(***************************************************************************)
(* Properties of redirect attribution.                                     *)
(***************************************************************************)
Tx(i) == Get(requests_list)[i + 1]

ObservationsOf(i) ==
    {k \in DOMAIN http_observations : http_observations[k].observation_idx = i}

HasLocation(headers) ==
    ~IsNone(headers) /\ \E k \in DOMAIN Get(headers) : lower(Get(headers)[k][1]) = "location"

\* transaction i+1 has a request and a response whose Location header
\* decodes to the request URL of transaction i
RedirectsTo(i) ==
    /\ i + 2 <= Len(Get(requests_list))
    /\ ~IsNone(Tx(i).request)
    /\ ~IsNone(Tx(i + 1).request)
    /\ ~IsNone(Tx(i + 1).response)
    /\ HasLocation(Get(Tx(i + 1).response).headers_list_bytes)
    /\ utf8_decode(get_first_http_header("location",
           Get(Get(Tx(i + 1).response).headers_list_bytes), FALSE))
         = Some(Get(Tx(i).request).url)

\* C9: every observation of a transaction i whose successor i+1 has a
\* response with a Location header that decodes to transaction i's request
\* URL has request_redirect_from equal to the request URL of i+1, with or
\* without a response of transaction i itself.
C9_RedirectAttribution ==
    \A k \in DOMAIN http_observations :
        RedirectsTo(http_observations[k].observation_idx) =>
            http_observations[k].request_redirect_from
              = Some(Get(Tx(http_observations[k].observation_idx + 1).request).url)

\* transaction i is the last, or i+1 has no response, no headers, no
\* request, or a Location header that is not valid UTF-8
NoAttribution(i) ==
    \/ i + 2 > Len(Get(requests_list))
    \/ IsNone(Tx(i + 1).response)
    \/ IsNone(Tx(i + 1).request)
    \/ IsNone(Get(Tx(i + 1).response).headers_list_bytes)
    \/ Get(Tx(i + 1).response).headers_list_bytes = Some(<<>>)
    \/ IsNone(utf8_decode(get_first_http_header("location",
           Get(Get(Tx(i + 1).response).headers_list_bytes), FALSE)))

\* C10: a processed transaction i with a request whose successor is missing
\* or has no response, no headers, no request or an undecodable Location
\* yields its observation with request_redirect_from unset, and nothing is
\* raised.
C10_BestEffortRedirect ==
    /\ IsNone(http_raised)
    /\ http_pc \in {"loop", "done"} /\ ~IsNone(requests_list) =>
         \A i \in 0..(http_idx - 1) :
            (~IsNone(Tx(i).request) /\ NoAttribution(i)) =>
                /\ ObservationsOf(i) # {}
                /\ \A k \in ObservationsOf(i) :
                      IsNone(http_observations[k].request_redirect_from)

\* the indexes of the transactions of the raw list that have a request, in order
WithRequest ==
    IF IsNone(requests_list) THEN <<>>
    ELSE LET HasRequest(i) == ~IsNone(Tx(i).request)
         IN  SelectSeq([k \in DOMAIN Get(requests_list) |-> k - 1], HasRequest)

\* C20: when make_http_observations is done its observations are, in
\* order, those of the transactions that have a request, each with the
\* index of its transaction in the raw list and the URL of its request; a
\* transaction without a request has no observation
C20_OnePerRequest ==
    http_pc = "done" =>
        /\ IsNone(http_raised)
        /\ Len(http_observations) = Len(WithRequest)
        /\ \A k \in DOMAIN http_observations :
              /\ http_observations[k].observation_idx = WithRequest[k]
              /\ http_observations[k].request_url = Get(Tx(WithRequest[k]).request).url

\* a transaction without a request came before one with a request, whose
\* observation carries index 1
C20_Witness ==
    /\ http_pc = "done"
    /\ ~IsNone(requests_list)
    /\ Len(Get(requests_list)) = 2
    /\ IsNone(Tx(0).request)
    /\ ~IsNone(Tx(1).request)
    /\ Len(http_observations) = 1
    /\ http_observations[1].observation_idx = 1

(***************************************************************************)
(* The bogon classifiers called on one argument.                           *)
(***************************************************************************)
\* strings that are no address literal of either family
NonLiterals == {"", "example.org", "10.0.0.256", "10.0.0.1/8", "fc00::1::"}

InitBogon ==
    /\ bogon_ip \in {Some(s) : s \in DOMAIN IPv4Literals \cup DOMAIN IPv6Literals
                                       \cup NonLiterals}
    /\ bogon_ipv4_result = None
    /\ bogon_ipv6_result = None
    /\ IdleBesideBogon

CallIsIpv4Bogon ==
    /\ ~IsNone(bogon_ip)
    /\ IsNone(bogon_ipv4_result)
    /\ bogon_ipv4_result' = Some(is_ipv4_bogon(Get(bogon_ip)))
    /\ UNCHANGED <<bogon_ip, bogon_ipv6_result>>
    /\ UNCHANGED vars_beside_bogon

CallIsIpv6Bogon ==
    /\ ~IsNone(bogon_ip)
    /\ IsNone(bogon_ipv6_result)
    /\ bogon_ipv6_result' = Some(is_ipv6_bogon(Get(bogon_ip)))
    /\ UNCHANGED <<bogon_ip, bogon_ipv4_result>>
    /\ UNCHANGED vars_beside_bogon

NextBogon == CallIsIpv4Bogon \/ CallIsIpv6Bogon

Network(version, words, prefixlen) ==
    [version |-> version, words |-> words, prefixlen |-> prefixlen]

\* 10.0.0.0/8 and 127.0.0.0/8
NamedIPv4Bogons ==
    {Network(4, <<10, 0, 0, 0>>, 8), Network(4, <<127, 0, 0, 0>>, 8)}

\* ::1/128, fc00::/7 and 2002:c0a8::/32
NamedIPv6Bogons ==
    {Network(6, <<0, 0, 0, 0, 0, 0, 0, 1>>, 128),
     Network(6, <<64512, 0, 0, 0, 0, 0, 0, 0>>, 7),
     Network(6, <<8194, 49320, 0, 0, 0, 0, 0, 0>>, 32)}

\* C11: is_ipv4_bogon is true for every address of 10.0.0.0/8 and
\* 127.0.0.0/8, is_ipv6_bogon is true for every address of ::1/128, fc00::/7
\* and 2002:c0a8::/32, both are false for 8.8.8.8 and 2001:4860:4860::8888,
\* and each is false for an argument that is no literal of its family.
C11_BogonClassifier ==
    LET ip == Get(bogon_ip)
        v4 == IPv4Address(ip)
        v6 == IPv6Address(ip)
    IN  /\ ~IsNone(bogon_ipv4_result) =>
              /\ (~IsNone(v4) /\ \E n \in NamedIPv4Bogons : AddrInNetwork(Get(v4), n))
                    => Get(bogon_ipv4_result) = TRUE
              /\ (ip \in {"8.8.8.8", "2001:4860:4860::8888"} \/ IsNone(v4))
                    => Get(bogon_ipv4_result) = FALSE
        /\ ~IsNone(bogon_ipv6_result) =>
              /\ (~IsNone(v6) /\ \E n \in NamedIPv6Bogons : AddrInNetwork(Get(v6), n))
                    => Get(bogon_ipv6_result) = TRUE
              /\ (ip \in {"8.8.8.8", "2001:4860:4860::8888"} \/ IsNone(v6))
                    => Get(bogon_ipv6_result) = FALSE

(***************************************************************************)
(* DNS and TCP observations (observations.py).                             *)
(***************************************************************************)
MaxQueries == 2

\* the measurement the observations are built for
MeasurementUid == "20220101T000000Z_m"

\* f"{msmt.measurement_uid}{idx}"
ObservationId(measurement_uid, idx) == measurement_uid \o ToString(idx)

DNSAnswer(answer_type, ipv4, ipv6, hostname) ==
    [answer_type |-> answer_type, ipv4 |-> ipv4, ipv6 |-> ipv6, hostname |-> hostname]

DNSQuery(hostname, answers) == [hostname |-> hostname, answers |-> answers]

\* DNSObservation.from_measurement; answer is None or Some(DNSAnswer).  The
\* base metadata, the network information and the fingerprints are left out.
DNSObservation_from_measurement(measurement_uid, query, answer, idx) ==
    LET dnso == [observation_id |-> ObservationId(measurement_uid, idx),
                 domain_name |-> query.hostname,
                 answer_type |-> None,
                 answer |-> None,
                 answer_is_bogon |-> None,
                 target |-> ""]
    IN  IF IsNone(answer) THEN dnso
        ELSE LET a == Get(answer)
             IN  [dnso EXCEPT
                    !.answer_type = Some(a.answer_type),
                    !.answer = IF Truthy(a.ipv4) THEN a.ipv4
                               ELSE IF Truthy(a.ipv6) THEN a.ipv6
                               ELSE IF Truthy(a.hostname) THEN a.hostname
                               ELSE None,
                    !.answer_is_bogon =
                               IF Truthy(a.ipv4) THEN Some(is_ipv4_bogon(Get(a.ipv4)))
                               ELSE IF Truthy(a.ipv6) THEN Some(is_ipv6_bogon(Get(a.ipv6)))
                               ELSE None]

\* a query without answers given no observation at all
AnswerList_no_null(query) ==
    IF IsNone(query.answers) THEN <<>>
    ELSE [i \in DOMAIN Get(query.answers) |-> Some(Get(query.answers)[i])]

\* answer_list = query.answers, or [None] when that is falsy
AnswerList(query) ==
    IF IsNone(query.answers) \/ Get(query.answers) = <<>> THEN <<None>>
    ELSE [i \in DOMAIN Get(query.answers) |-> Some(Get(query.answers)[i])]

\* the inner loop: the observations of one query, from index idx on
RECURSIVE AnswerLoop(_, _, _, _, _)
AnswerLoop(measurement_uid, query, answer_list, idx, target) ==
    IF answer_list = <<>> THEN <<>>
    ELSE <<[DNSObservation_from_measurement(measurement_uid, query,
                                            Head(answer_list), idx)
              EXCEPT !.target = target]>>
         \o AnswerLoop(measurement_uid, query, Tail(answer_list), idx + 1, target)

\* the outer loop over the queries; idx runs on across the queries
RECURSIVE QueryLoop(_, _, _, _)
QueryLoop(measurement_uid, queries, idx, target) ==
    IF queries = <<>> THEN <<>>
    ELSE LET answer_list == AnswerList(Head(queries))
         IN  AnswerLoop(measurement_uid, Head(queries), answer_list, idx, target)
             \o QueryLoop(measurement_uid, Tail(queries),
                          idx + Len(answer_list), target)

\* the sequence of the observations the generator yields
make_dns_observations(measurement_uid, queries, target) ==
    IF IsNone(queries) \/ Get(queries) = <<>> THEN <<>>
    ELSE QueryLoop(measurement_uid, Get(queries), 0, target)

DNSAnswers ==
    {DNSAnswer("A", Some("8.8.8.8"), None, None),
     DNSAnswer("A", Some("10.0.0.1"), None, None),
     DNSAnswer("AAAA", None, Some("fc00::1"), None),
     DNSAnswer("CNAME", None, None, Some("cdn.example"))}

DNSAnswerLists ==
    {None, Some(<<>>)}
    \cup {Some(<<a>>) : a \in DNSAnswers}
    \cup {Some(<<DNSAnswer("CNAME", None, None, Some("cdn.example")), a>>) :
            a \in DNSAnswers}

DNSQueries == {DNSQuery(h, l) : h \in {"d1.example", "d2.example"}, l \in DNSAnswerLists}

InitDNS ==
    /\ dns_queries \in
          {None} \cup {Some(s) : s \in UNION {[1..n -> DNSQueries] : n \in 0..MaxQueries}}
    /\ dns_pc = "input"
    /\ dns_observations = <<>>
    /\ IdleBesideDNS

\* the generator is run to its end
MakeDnsObservations ==
    /\ dns_pc = "input"
    /\ dns_observations' = make_dns_observations(MeasurementUid, dns_queries, "")
    /\ dns_pc' = "done"
    /\ UNCHANGED dns_queries
    /\ UNCHANGED vars_beside_dns

NextDNS == MakeDnsObservations

\* the (query, answer) pairs in order, a query without answers paired once
\* with no answer
RECURSIVE QueryAnswerPairs(_)
QueryAnswerPairs(queries) ==
    IF queries = <<>> THEN <<>>
    ELSE LET q == Head(queries)
             answers == IF IsNone(q.answers) THEN <<>> ELSE Get(q.answers)
         IN  (IF answers = <<>> THEN <<[query |-> q, answer |-> None]>>
              ELSE [i \in DOMAIN answers |-> [query |-> q, answer |-> Some(answers[i])]])
             \o QueryAnswerPairs(Tail(queries))

RECURSIVE SumMaxOneAnswers(_)
SumMaxOneAnswers(queries) ==
    IF queries = <<>> THEN 0
    ELSE LET q == Head(queries)
             n == IF IsNone(q.answers) THEN 0 ELSE Len(Get(q.answers))
         IN  (IF n > 1 THEN n ELSE 1) + SumMaxOneAnswers(Tail(queries))

AnswerValue(a) ==
    IF Truthy(a.ipv4) THEN a.ipv4
    ELSE IF Truthy(a.ipv6) THEN a.ipv6 ELSE a.hostname

\* C18: make_dns_observations yields, in query and answer order, one
\* observation per (query, answer) pair and one observation with null answer
\* fields for a query without answers: as many as the sum over the queries
\* of max(1, number of answers).
C18_OnePerQueryAnswer ==
    (dns_pc = "done" /\ ~IsNone(dns_queries)) =>
        LET pairs == QueryAnswerPairs(Get(dns_queries))
        IN  /\ Len(dns_observations) = SumMaxOneAnswers(Get(dns_queries))
            /\ Len(dns_observations) = Len(pairs)
            /\ \A k \in DOMAIN pairs :
                  /\ dns_observations[k].domain_name = pairs[k].query.hostname
                  /\ IF IsNone(pairs[k].answer)
                     THEN /\ IsNone(dns_observations[k].answer)
                          /\ IsNone(dns_observations[k].answer_type)
                          /\ IsNone(dns_observations[k].answer_is_bogon)
                     ELSE /\ dns_observations[k].answer = AnswerValue(Get(pairs[k].answer))
                          /\ dns_observations[k].answer_type
                               = Some(Get(pairs[k].answer).answer_type)

\* two queries, the first without answers, the second with two
C18_Witness ==
    /\ dns_pc = "done"
    /\ ~IsNone(dns_queries)
    /\ Len(Get(dns_queries)) = 2
    /\ Get(dns_queries)[1].answers = Some(<<>>)
    /\ ~IsNone(Get(dns_queries)[2].answers)
    /\ Len(Get(Get(dns_queries)[2].answers)) = 2
    /\ Len(dns_observations) = 3

(***************************************************************************)
(* dnscheck_processor (processing.py): the observations of the bootstrap   *)
(* and of every lookup of a measurement are written to the database.       *)
(***************************************************************************)
MaxLookups == 2

TCPConnect(ip, port, failure) ==
    [ip |-> ip, port |-> port, status |-> [failure |-> failure]]

\* TCPObservation.from_measurement, without the network information
TCPObservation_from_measurement(measurement_uid, res, idx, ip_map) ==
    [observation_id |-> ObservationId(measurement_uid, idx),
     ip |-> res.ip,
     port |-> res.port,
     failure |-> normalize_failure(res.status.failure),
     domain_name |-> IF res.ip \in DOMAIN ip_map THEN ip_map[res.ip] ELSE "",
     target |-> ""]

\* the observations of enumerate(tcp_connect)
make_tcp_observations(measurement_uid, tcp_connect, ip_map, target) ==
    IF IsNone(tcp_connect) \/ Get(tcp_connect) = <<>> THEN <<>>
    ELSE [i \in DOMAIN Get(tcp_connect) |->
            [TCPObservation_from_measurement(measurement_uid, Get(tcp_connect)[i],
                                             i - 1, ip_map)
                EXCEPT !.target = target]]

\* the observations of make_http_observations, each with its observation id
RECURSIVE HttpObservationsFrom(_, _, _)
HttpObservationsFrom(measurement_uid, rlist, idx) ==
    IF idx >= Len(Get(rlist)) THEN <<>>
    ELSE LET r == HTTPObservation_from_measurement(idx, rlist, Get(rlist)[idx + 1])
         IN  (IF IsNone(r.hrro) THEN <<>>
              ELSE <<[observation_id |-> ObservationId(measurement_uid, idx),
                      request_url |-> Get(r.hrro).request_url,
                      request_redirect_from |-> Get(r.hrro).request_redirect_from]>>)
             \o HttpObservationsFrom(measurement_uid, rlist, idx + 1)

http_observations_of(measurement_uid, rlist) ==
    IF IsNone(rlist) \/ Get(rlist) = <<>> THEN <<>>
    ELSE HttpObservationsFrom(measurement_uid, rlist, 0)

\* the observations of make_tls_observations, each with its observation id
tls_observations_of(measurement_uid, tls_handshakes, events, ip_map) ==
    IF IsNone(tls_handshakes) \/ Get(tls_handshakes) = <<>> THEN <<>>
    ELSE [i \in DOMAIN Get(tls_handshakes) |->
            LET o == TLSObservation_from_measurement(Get(tls_handshakes)[i], events,
                                                     i - 1, ip_map)
            IN  [observation_id |-> ObservationId(measurement_uid, o.observation_idx),
                 ip |-> o.ip,
                 domain_name |-> o.domain_name]]

\* write_observations_to_db: one db.write_row(table, row) per observation
RECURSIVE write_observations_to_db(_, _, _)
write_observations_to_db(db, table, observations) ==
    IF observations = <<>> THEN db
    ELSE write_observations_to_db(Append(db, [table |-> table, row |-> Head(observations)]),
                                  table, Tail(observations))

\* {str(obs.answer): obs.domain_name for obs with an answer}: a later
\* observation of the same answer replaces an earlier one
RECURSIVE IpToDomain(_, _)
IpToDomain(observations, acc) ==
    IF observations = <<>> THEN acc
    ELSE LET obs == Head(observations)
         IN  IpToDomain(Tail(observations),
                        IF Truthy(obs.answer)
                        THEN (Get(obs.answer) :> obs.domain_name) @@ acc
                        ELSE acc)

\* ip_to_domain as dnscheck_processor holds it after the bootstrap
BootstrapIpToDomain(m) ==
    IF IsNone(m.bootstrap) THEN <<>>
    ELSE IpToDomain(make_dns_observations(MeasurementUid, Get(m.bootstrap).queries, ""),
                    <<>>)

LookupQueries ==
    {None,
     Some(<<DNSQuery("d1.example", Some(<<DNSAnswer("A", Some("8.8.8.8"), None, None)>>))>>),
     Some(<<DNSQuery("d1.example", None),
            DNSQuery("d1.example", Some(<<DNSAnswer("A", Some("1.1.1.1"), None, None)>>))>>)}

Lookups ==
    [queries : LookupQueries,
     requests : {None,
                 Some(<<[request |-> Some([url |-> <<97>>]), response |-> None]>>)},
     tcp_connect : {None, Some(<<TCPConnect("1.1.1.1", 443, None)>>)},
     tls_handshakes : {None,
                       Some(<<TLSHandshake(1, Some("1.1.1.1:443"), Some(FALSE), None, None)>>)},
     network_events : {None}]

Bootstraps == {None} \cup {Some([queries |-> q]) : q \in LookupQueries}

InitDnscheck ==
    /\ msmt \in {Some([bootstrap |-> b, lookups |-> l]) :
                    b \in Bootstraps,
                    l \in UNION {[1..n -> Lookups] : n \in 0..MaxLookups}}
    /\ msmt_pc = "bootstrap"
    /\ lookup_idx = 0
    /\ db_rows = <<>>
    /\ IdleBesideDnscheck

\* the bootstrap branch of dnscheck_processor
DnscheckBootstrap ==
    /\ msmt_pc = "bootstrap"
    /\ db_rows' =
          IF IsNone(Get(msmt).bootstrap) THEN db_rows
          ELSE write_observations_to_db(db_rows, "obs_dns",
                   make_dns_observations(MeasurementUid,
                                         Get(Get(msmt).bootstrap).queries, ""))
    /\ msmt_pc' = "lookups"
    /\ UNCHANGED <<msmt, lookup_idx>>
    /\ UNCHANGED vars_beside_dnscheck

\* one iteration of the loop over msmt.test_keys.lookups.values()
DnscheckLookup ==
    /\ msmt_pc = "lookups"
    /\ lookup_idx < Len(Get(msmt).lookups)
    /\ LET lookup == Get(msmt).lookups[lookup_idx + 1]
           ip_map == BootstrapIpToDomain(Get(msmt))
           db1 == write_observations_to_db(db_rows, "obs_dns",
                      make_dns_observations(MeasurementUid, lookup.queries, ""))
           db2 == write_observations_to_db(db1, "obs_http",
                      http_observations_of(MeasurementUid, lookup.requests))
           db3 == write_observations_to_db(db2, "obs_tcp",
                      make_tcp_observations(MeasurementUid, lookup.tcp_connect,
                                            ip_map, ""))
       IN  db_rows' = write_observations_to_db(db3, "obs_tls",
                          tls_observations_of(MeasurementUid, lookup.tls_handshakes,
                                              lookup.network_events, ip_map))
    /\ lookup_idx' = lookup_idx + 1
    /\ UNCHANGED <<msmt, msmt_pc>>
    /\ UNCHANGED vars_beside_dnscheck

DnscheckDone ==
    /\ msmt_pc = "lookups"
    /\ lookup_idx = Len(Get(msmt).lookups)
    /\ msmt_pc' = "done"
    /\ UNCHANGED <<msmt, lookup_idx, db_rows>>
    /\ UNCHANGED vars_beside_dnscheck

NextDnscheck == DnscheckBootstrap \/ DnscheckLookup \/ DnscheckDone

\* C12: no two observations written for the measurement carry the same
\* observation_id.
C12_ObservationIdUnique ==
    \A i \in DOMAIN db_rows : \A j \in DOMAIN db_rows :
        i # j => db_rows[i].row.observation_id # db_rows[j].row.observation_id

(***************************************************************************)
(* The worker pool of the command line (processing.py): the main process   *)
(* creates the pool, whose processes run worker, then puts the days and    *)
(* one None per process on the shared queue.                               *)
(***************************************************************************)
MaxDays == 2
MaxWorkers == 2

\* date_interval(start_day, end_day): the days 1..n in order
date_interval(n) == [i \in 1..n |-> i]

\* day_queue.get(block=True) on a non-empty queue: the item and the queue left
QueueGet_peek(q) == [item |-> Head(q), rest |-> q]

QueueGet(q) == [item |-> Head(q), rest |-> Tail(q)]

\* range(args.parallelism): the number of sentinels to put
SentinelCount(p) == p

PoolEvent(ev, day) == [ev |-> ev, day |-> day]

\* the pool is created before anything is put: every worker waits in get;
\* writing CSV forces a parallelism of one
InitPool ==
    /\ clickhouse \in BOOLEAN
    /\ parallelism \in (IF clickhouse THEN 1..MaxWorkers ELSE {1})
    /\ only_verdicts \in BOOLEAN
    /\ num_days \in 0..MaxDays
    /\ days_to_put = date_interval(num_days)
    /\ raising_days \in SUBSET (1..num_days)
    /\ sentinels_put = 0
    /\ producer_pc = "days"
    /\ day_queue = <<>>
    /\ worker_pc = [w \in 1..parallelism |-> "get"]
    /\ respawned = 0
    /\ worker_reader = [w \in 1..parallelism |-> TRUE]
    /\ worker_day = [w \in 1..parallelism |-> None]
    /\ pool_log = [w \in 1..parallelism |-> <<>>]
    /\ IdleBesidePool

\* for day in date_interval(...): day_queue.put(day)
PutDay ==
    /\ producer_pc = "days"
    /\ days_to_put # <<>>
    /\ day_queue' = Append(day_queue, Some(Head(days_to_put)))
    /\ days_to_put' = Tail(days_to_put)
    /\ UNCHANGED <<parallelism, clickhouse, only_verdicts, num_days, raising_days, sentinels_put,
                   producer_pc, worker_pc, respawned, worker_reader, worker_day, pool_log>>
    /\ UNCHANGED vars_beside_pool

PutDaysDone ==
    /\ producer_pc = "days"
    /\ days_to_put = <<>>
    /\ producer_pc' = "sentinels"
    /\ UNCHANGED <<parallelism, clickhouse, only_verdicts, num_days, raising_days, days_to_put,
                   sentinels_put, day_queue, worker_pc, respawned, worker_reader, worker_day, pool_log>>
    /\ UNCHANGED vars_beside_pool

\* for _ in range(args.parallelism): day_queue.put(None)
PutSentinel ==
    /\ producer_pc = "sentinels"
    /\ sentinels_put < SentinelCount(parallelism)
    /\ day_queue' = Append(day_queue, None)
    /\ sentinels_put' = sentinels_put + 1
    /\ UNCHANGED <<parallelism, clickhouse, only_verdicts, num_days, raising_days, days_to_put,
                   producer_pc, worker_pc, respawned, worker_reader, worker_day, pool_log>>
    /\ UNCHANGED vars_beside_pool

\* day_queue.close()
CloseQueue ==
    /\ producer_pc = "sentinels"
    /\ sentinels_put = SentinelCount(parallelism)
    /\ producer_pc' = "closed"
    /\ UNCHANGED <<parallelism, clickhouse, only_verdicts, num_days, raising_days, days_to_put,
                   sentinels_put, day_queue, worker_pc, respawned, worker_reader, worker_day, pool_log>>
    /\ UNCHANGED vars_beside_pool

\* worker w: day = day_queue.get(block=True); None ends the loop.  In a
\* process forked after day_queue.close() the reader it inherited is closed:
\* get raises OSError('handle is closed'), worker raises and nothing is taken.
WorkerGetBy(w) ==
    /\ worker_pc[w] = "get"
    /\ IF ~worker_reader[w]
       THEN /\ worker_pc' = [worker_pc EXCEPT ![w] = "failed"]
            /\ pool_log' = [pool_log EXCEPT ![w] = Append(@, PoolEvent("OSError", 0))]
            /\ UNCHANGED <<day_queue, worker_day>>
       ELSE /\ day_queue # <<>>
            /\ LET got == QueueGet(day_queue)
               IN  /\ day_queue' = got.rest
                   /\ IF IsNone(got.item)
                      THEN /\ worker_pc' = [worker_pc EXCEPT ![w] = "exited"]
                           /\ pool_log' = [pool_log EXCEPT
                                             ![w] = Append(@, PoolEvent("sentinel", 0))]
                           /\ UNCHANGED worker_day
                      ELSE /\ worker_pc' = [worker_pc EXCEPT ![w] = "day"]
                           /\ worker_day' = [worker_day EXCEPT ![w] = got.item]
                           /\ pool_log' = [pool_log EXCEPT
                                             ![w] = Append(@, PoolEvent("take", Get(got.item)))]
    /\ UNCHANGED <<parallelism, clickhouse, only_verdicts, num_days, raising_days, days_to_put,
                   sentinels_put, producer_pc, respawned, worker_reader>>
    /\ UNCHANGED vars_beside_pool

\* worker w: the body of the loop for the day taken.  With --only-verdicts
\* on Clickhouse the branch reads args.day, which the parser does not
\* define; otherwise process_day runs and returns or raises.
WorkerDayBy(w) ==
    /\ worker_pc[w] = "day"
    /\ LET day == Get(worker_day[w])
           raises == (clickhouse /\ only_verdicts) \/ day \in raising_days
       IN  /\ worker_pc' = [worker_pc EXCEPT ![w] = IF raises THEN "failed" ELSE "get"]
           /\ pool_log' = [pool_log EXCEPT
                              ![w] = Append(@, PoolEvent(IF raises THEN "fail" ELSE "done", day))]
    /\ worker_day' = [worker_day EXCEPT ![w] = None]
    /\ UNCHANGED <<parallelism, clickhouse, only_verdicts, num_days, raising_days, days_to_put,
                   sentinels_put, producer_pc, day_queue, respawned, worker_reader>>
    /\ UNCHANGED vars_beside_pool

\* the processes of the pool run worker as their initializer: a process
\* whose worker raised is dead
DeadProcesses == {w \in DOMAIN worker_pc : worker_pc[w] = "failed"}

\* the processes the pool is let start, the first ones included
MaxProcesses == MaxWorkers + MaxDays

\* multiprocessing.Pool(processes=args.parallelism, initializer=worker, ...):
\* until pool.close() the pool keeps that number of processes alive and
\* starts a new one, which runs worker again, in place of a dead one.  The
\* new process is forked with the queue as the main process holds it: with
\* its reader closed once day_queue.close() has run.  Such a process dies in
\* its first get and is replaced in turn, here up to MaxProcesses.
PoolRespawn ==
    /\ producer_pc \in {"days", "sentinels", "closed"}
    /\ respawned < Cardinality(DeadProcesses)
    /\ Len(worker_pc) < MaxProcesses
    /\ respawned' = respawned + 1
    /\ worker_pc' = Append(worker_pc, "get")
    /\ worker_reader' = Append(worker_reader, producer_pc # "closed")
    /\ worker_day' = Append(worker_day, None)
    /\ pool_log' = Append(pool_log, <<>>)
    /\ UNCHANGED <<parallelism, clickhouse, only_verdicts, num_days, raising_days, days_to_put,
                   sentinels_put, producer_pc, day_queue>>
    /\ UNCHANGED vars_beside_pool

\* day_queue.join_thread(); pool.close()
ClosePool ==
    /\ producer_pc = "closed"
    /\ producer_pc' = "pool_closed"
    /\ UNCHANGED <<parallelism, clickhouse, only_verdicts, num_days, raising_days, days_to_put,
                   sentinels_put, day_queue, worker_pc, respawned, worker_reader, worker_day, pool_log>>
    /\ UNCHANGED vars_beside_pool

WorkerGet == \E w \in DOMAIN worker_pc : WorkerGetBy(w)

WorkerDay == \E w \in DOMAIN worker_pc : WorkerDayBy(w)

NextPool ==
    \/ PutDay
    \/ PutDaysDone
    \/ PutSentinel
    \/ CloseQueue
    \/ ClosePool
    \/ WorkerGet
    \/ WorkerDay
    \/ PoolRespawn

\* the main process runs on, every worker process is scheduled and so is
\* the pool's handler of dead processes
FairPool ==
    /\ WF_vars(PutDay) /\ WF_vars(PutDaysDone) /\ WF_vars(PutSentinel)
    /\ WF_vars(CloseQueue) /\ WF_vars(ClosePool) /\ WF_vars(PoolRespawn)
    /\ \A w \in 1..MaxProcesses : WF_vars(w \in DOMAIN worker_pc /\ WorkerGetBy(w))
    /\ \A w \in 1..MaxProcesses : WF_vars(w \in DOMAIN worker_pc /\ WorkerDayBy(w))

(***************************************************************************)
(* Properties of the worker pool.                                          *)
(***************************************************************************)
\* the events ev of the day in the logs of the workers, as <<worker, position>>
LogOf(ev, day) ==
    UNION {{<<w, i>> : i \in {j \in DOMAIN pool_log[w] :
                                 pool_log[w][j].ev = ev /\ pool_log[w][j].day = day}} :
           w \in DOMAIN pool_log}

NoWorkerFailed == \A w \in DOMAIN worker_pc : worker_pc[w] # "failed"

AllWorkersExited == \A w \in DOMAIN worker_pc : worker_pc[w] = "exited"

EnqueuedDays == {Get(day_queue[i]) : i \in {j \in DOMAIN day_queue : ~IsNone(day_queue[j])}}

\* the events of worker w alternate: a take, then the completion of that day
RECURSIVE Sequential(_, _)
Sequential(log, open) ==
    IF log = <<>> THEN TRUE
    ELSE LET e == Head(log)
         IN  IF e.ev = "take" THEN IsNone(open) /\ Sequential(Tail(log), Some(e.day))
             ELSE IF e.ev \in {"done", "fail"}
             THEN open = Some(e.day) /\ Sequential(Tail(log), None)
             ELSE IsNone(open) /\ Sequential(Tail(log), open)

\* C13: while no worker has failed, each day is taken from the queue by at
\* most one worker, which processes it to completion before it takes its
\* next item; once every worker has exited, each day of the interval has
\* been processed exactly once.
C13_EachDayOnce ==
    NoWorkerFailed =>
        /\ \A d \in 1..MaxDays :
              /\ Cardinality(LogOf("take", d)) <= 1
              /\ Cardinality(LogOf("done", d)) <= 1
        /\ \A w \in DOMAIN worker_pc : Sequential(pool_log[w], None)
        /\ AllWorkersExited =>
              \A d \in 1..num_days : Cardinality(LogOf("done", d)) = 1

\* two workers, two days, all processed and every worker gone
C13_Witness ==
    /\ NoWorkerFailed
    /\ AllWorkersExited
    /\ parallelism = 2
    /\ num_days = 2
    /\ \E i \in LogOf("done", 1) : \E j \in LogOf("done", 2) :
          i[1] # j[1]

SentinelsOf(w) == {i \in DOMAIN pool_log[w] : pool_log[w][i].ev = "sentinel"}

\* one sentinel per worker, after all days; an exited worker got exactly one
\* sentinel, and no day waits in the queue once a worker has exited
SentinelProtocol ==
    /\ sentinels_put <= parallelism
    /\ producer_pc \in {"closed", "pool_closed"} => sentinels_put = parallelism
    /\ sentinels_put > 0 => days_to_put = <<>>
    /\ \A i \in DOMAIN day_queue : \A j \in DOMAIN day_queue :
          (IsNone(day_queue[i]) /\ ~IsNone(day_queue[j])) => j < i
    /\ \A w \in DOMAIN worker_pc :
          /\ Cardinality(SentinelsOf(w)) <= 1
          /\ worker_pc[w] = "exited" <=> Cardinality(SentinelsOf(w)) = 1
          /\ worker_pc[w] = "exited" => (EnqueuedDays = {} /\ days_to_put = <<>>)

\* C14: the sentinel protocol holds and every worker eventually gets its
\* sentinel and exits.
C14_EveryWorkerExits == []SentinelProtocol /\ <>AllWorkersExited

\* C27: with --only-verdicts on Clickhouse the body of the loop completes
\* for each day a worker takes (the verdicts of that day are generated and
\* written, nothing is ingested) and the worker goes on to its next item:
\* no taken day ends in a failure and no worker fails
C27_VerdictOnlyDays ==
    (clickhouse /\ only_verdicts) =>
        /\ \A w \in DOMAIN pool_log : \A i \in DOMAIN pool_log[w] : pool_log[w][i].ev # "fail"
        /\ NoWorkerFailed

(***************************************************************************)
(* process_day (processing.py): the measurements of one day are loaded and *)
(* processed one by one; a measurement whose handling raises is written to *)
(* bad_msmts.jsonl and its traceback to bad_msmts_fail_log.txt.            *)
(***************************************************************************)
MaxMsmts == 3

\* the report a measurement belongs to
ReportOf(idx) == ReportIds[(idx % 2) + 1]

\* a row of a table: the measurement it comes from, its session_id and its
\* timestamp
Row(table, idx, session_id, timestamp) ==
    [table |-> table, idx |-> idx, session_id |-> session_id, timestamp |-> timestamp]

\* make_timestamp(msmt, t): measurement_start_time, plus t seconds if t
make_timestamp(m, t) ==
    IF t # 0 THEN m.measurement_start_time + t ELSE m.measurement_start_time

\* a run of an observation builder (a generator): the number of
\* observations it yields, and whether it raises after them
Builder(n, raises) == [rows |-> n, raises |-> raises]

NoRows == Builder(0, FALSE)

\* the records of a target or of a lookup, by the run of each builder
Section(http, dns, tcp, tls) == [http |-> http, dns |-> dns, tcp |-> tcp, tls |-> tls]

\* the measurements of the model: whether load_measurement and
\* NettestObservation.from_measurement raise, the test name, the bootstrap
\* (dnscheck) and the targets or lookups, measurement_start_time and the
\* time t of its records
Msmt(load, base, test_name, bootstrap, sections, measurement_start_time, t) ==
    [load_raises |-> load, base_raises |-> base, test_name |-> test_name,
     bootstrap |-> bootstrap, sections |-> sections,
     measurement_start_time |-> measurement_start_time, t |-> t]

\* all start at noon but one dnscheck, which starts a second before
\* midnight and is answered two seconds later
Measurements ==
    {Msmt(TRUE, FALSE, "", None, <<>>, 43200, 0),
     Msmt(FALSE, TRUE, "tor", None, <<>>, 43200, 0),
     Msmt(FALSE, FALSE, "whatsapp", None, <<>>, 43200, 0),
     Msmt(FALSE, FALSE, "tor", None,
          <<Section(NoRows, NoRows, Builder(1, FALSE), NoRows)>>, 43200, 0),
     Msmt(FALSE, FALSE, "dnscheck", None,
          <<Section(NoRows, Builder(2, FALSE), NoRows, NoRows)>>, 86399, 2),
     Msmt(FALSE, FALSE, "dnscheck", Some(Builder(1, FALSE)),
          <<Section(NoRows, Builder(1, FALSE), NoRows, NoRows),
            Section(NoRows, Builder(0, TRUE), NoRows, NoRows)>>, 43200, 0),
     Msmt(FALSE, FALSE, "web_connectivity", None,
          <<Section(Builder(1, FALSE), Builder(1, FALSE), Builder(1, FALSE),
                    Builder(1, FALSE))>>, 43200, 0)}

\* write_observations_to_db over the builders of a processor, in order:
\* every observation is written as its generator yields it, up to the first
\* builder that raises
RECURSIVE WriteBuilders(_, _, _, _, _)
WriteBuilders(runs, idx, session_id, timestamp, written) ==
    IF runs = <<>> THEN [rows |-> written, raised |-> FALSE]
    ELSE LET table == Head(runs)[1]
             b == Head(runs)[2]
             rows == written \o [k \in 1..b.rows |->
                                      Row(table, idx, session_id, timestamp)]
         IN  IF b.raises THEN [rows |-> rows, raised |-> TRUE]
             ELSE WriteBuilders(Tail(runs), idx, session_id, timestamp, rows)

\* the sequences of a sequence, one after the other
RECURSIVE Flatten(_)
Flatten(ss) == IF ss = <<>> THEN <<>> ELSE Head(ss) \o Flatten(Tail(ss))

\* default_processor: print(f"Ignoring {msmt}")
default_processor(m, idx) == [rows |-> <<>>, raised |-> FALSE]

\* tor_processor: per target, the http, dns, tcp and tls observations
tor_processor(m, idx) ==
    WriteBuilders(Flatten([k \in DOMAIN m.sections |->
                             <<<<"obs_http", m.sections[k].http>>,
                               <<"obs_dns", m.sections[k].dns>>,
                               <<"obs_tcp", m.sections[k].tcp>>,
                               <<"obs_tls", m.sections[k].tls>>>>]),
                  idx, ReportOf(idx), make_timestamp(m, m.t), <<>>)

\* web_connectivity_processor: the observations of
\* make_web_connectivity_observations, which is not in observations.py: the
\* DNS, TCP, TLS and HTTP observations of the measurement (section 4.5)
make_web_connectivity_observations(m) ==
    Flatten([k \in DOMAIN m.sections |->
               <<<<"obs_dns", m.sections[k].dns>>,
                 <<"obs_tcp", m.sections[k].tcp>>,
                 <<"obs_tls", m.sections[k].tls>>,
                 <<"obs_http", m.sections[k].http>>>>])

web_connectivity_processor(m, idx) ==
    WriteBuilders(make_web_connectivity_observations(m), idx, ReportOf(idx), make_timestamp(m, m.t), <<>>)

\* dnscheck_processor: the observations of the bootstrap are made as a list
\* before any is written; then per lookup the dns, http, tcp and tls ones
dnscheck_processor(m, idx) ==
    LET lookups == Flatten([k \in DOMAIN m.sections |->
                              <<<<"obs_dns", m.sections[k].dns>>,
                                <<"obs_http", m.sections[k].http>>,
                                <<"obs_tcp", m.sections[k].tcp>>,
                                <<"obs_tls", m.sections[k].tls>>>>])
    IN  IF IsNone(m.bootstrap) THEN WriteBuilders(lookups, idx, ReportOf(idx), make_timestamp(m, m.t), <<>>)
        ELSE IF Get(m.bootstrap).raises THEN [rows |-> <<>>, raised |-> TRUE]
        ELSE WriteBuilders(<<<<"obs_dns", Get(m.bootstrap)>>>> \o lookups,
                           idx, ReportOf(idx), make_timestamp(m, m.t), <<>>)

\* nettest_processors.get(msmt.test_name, default_processor)
nettest_processors(m, idx) ==
    CASE m.test_name = "web_connectivity" -> web_connectivity_processor(m, idx)
      [] m.test_name = "dnscheck" -> dnscheck_processor(m, idx)
      [] m.test_name = "tor" -> tor_processor(m, idx)
      [] OTHER -> default_processor(m, idx)

\* base_processor: the NettestObservation of the measurement is made, then
\* written
base_processor(m, idx) ==
    IF m.base_raises THEN [rows |-> <<>>, raised |-> TRUE]
    ELSE [rows |-> <<Row("obs_nettest", idx, ReportOf(idx), make_timestamp(m, 0))>>,
          raised |-> FALSE]

\* the try block of a measurement: the rows it has written to the database
\* when it ends, and whether it ends in an exception
RowsOfMeasurement(m, idx) ==
    IF m.load_raises THEN [rows |-> <<>>, raised |-> TRUE]
    ELSE IF base_processor(m, idx).raised THEN base_processor(m, idx)
    ELSE LET p == nettest_processors(m, idx)
         IN  [rows |-> base_processor(m, idx).rows \o p.rows, raised |-> p.raised]

\* db.write_row(obs.__table_name__, row)
InsertStatement(row) == Statement("write_row", row.table, row.session_id, Some(row), <<>>)

\* the database after a statement: write_row appends its row; ALTER TABLE
\* ... DELETE WHERE report_id = ... removes the rows of the table with that
\* id; a query leaves the tables alone
Execute(db, statement) ==
    LET Kept(r) == ~(r.table = statement.table /\ r.session_id = statement.session_id)
    IN  CASE statement.op = "write_row" -> Append(db, Get(statement.row))
          [] statement.op = "ALTER TABLE DELETE" -> SelectSeq(db, Kept)
          [] OTHER -> db

\* the database after the statements, in order
RECURSIVE ExecuteAll(_, _)
ExecuteAll(db, statements) ==
    IF statements = <<>> THEN db
    ELSE ExecuteAll(Execute(db, Head(statements)), Tail(statements))

\* the rows of the session in the table are deleted before the first write
InsertStatements_deleting(rows) ==
    IF rows = <<>> THEN <<>>
    ELSE <<Statement("ALTER TABLE DELETE", rows[1].table, rows[1].session_id, None, <<>>)>>
            \o [k \in DOMAIN rows |-> InsertStatement(rows[k])]

\* write_observations_to_db: one write_row per observation
InsertStatements(rows) == [k \in DOMAIN rows |-> InsertStatement(rows[k])]

\* the database after write_observations_to_db
WriteRows(db, rows) == ExecuteAll(db, InsertStatements(rows))

\* make_dns_baseline, make_http_baseline_map, make_tcp_baseline_map: the
\* confirmed answers are read from the cache table, the two maps from the
\* observations of the fleet
BaselineStatements ==
    <<SelectStatement("dns_consistency_tls_baseline", <<>>),
      SelectStatement("obs_http", <<>>),
      SelectStatement("obs_tcp", <<>>)>>

\* what an earlier run of the same day left in the database
PriorRows ==
    <<Row("obs_nettest", 0, ReportOf(0), 43200), Row("obs_dns", 0, ReportOf(0), 43200)>>

\* a write to a file: the text written and the measurement it is about
FileWrite(text, idx) == [text |-> text, idx |-> idx]

\* out_file.write(orjson.dumps(msmt_dict)); out_file.write(b"\n")
WriteBadMsmt(file, idx) ==
    file \o <<FileWrite("msmt_dict", idx), FileWrite("\n", idx)>>

\* out_file.write(traceback.format_exc()); out_file.write("ENDTB----\n")
WriteFailLog(file, idx) ==
    file \o <<FileWrite("Traceback", idx), FileWrite("ENDTB----\n", idx)>>

\* if fast_fail: raise exc
AfterQuarantine(fast_fail) == IF fast_fail THEN "raised" ELSE "loop"

InitDay ==
    /\ day_msmts \in UNION {[1..n -> Measurements] : n \in 0..MaxMsmts}
    /\ day_fast_fail \in BOOLEAN
    /\ day_start_at_idx \in 0..1
    /\ day_clickhouse \in BOOLEAN
    /\ day_skip_verdicts \in BOOLEAN
    /\ day_idx = 0
    /\ day_pc = "loop"
    /\ day_exc = None
    /\ bad_msmts = <<>>
    /\ bad_msmts_fail_log = <<>>
    /\ day_rows \in {<<>>, PriorRows}
    /\ day_statements = <<>>
    /\ day_attempted = <<>>
    /\ day_verdicts = FALSE
    /\ IdleBesideDay

\* if idx < start_at_idx: continue
DaySkip ==
    /\ day_pc = "loop"
    /\ day_idx < Len(day_msmts)
    /\ day_idx < day_start_at_idx
    /\ day_idx' = day_idx + 1
    /\ UNCHANGED <<day_msmts, day_fast_fail, day_start_at_idx, day_clickhouse, day_skip_verdicts,
                   day_pc, day_exc, bad_msmts, bad_msmts_fail_log, day_rows, day_statements,
                   day_attempted, day_verdicts>>
    /\ UNCHANGED vars_beside_day

\* the try block runs to its end
DayProcess ==
    /\ day_pc = "loop"
    /\ day_idx < Len(day_msmts)
    /\ day_idx >= day_start_at_idx
    /\ LET try == RowsOfMeasurement(day_msmts[day_idx + 1], day_idx)
       IN  /\ ~try.raised
           /\ day_rows' = WriteRows(day_rows, try.rows)
           /\ day_statements' = day_statements \o InsertStatements(try.rows)
    /\ day_attempted' = Append(day_attempted, day_idx)
    /\ day_idx' = day_idx + 1
    /\ UNCHANGED <<day_msmts, day_fast_fail, day_start_at_idx, day_clickhouse, day_skip_verdicts,
                   day_pc, day_exc, bad_msmts, bad_msmts_fail_log, day_verdicts>>
    /\ UNCHANGED vars_beside_day

\* the try block raises: except Exception as exc
DayQuarantine ==
    /\ day_pc = "loop"
    /\ day_idx < Len(day_msmts)
    /\ day_idx >= day_start_at_idx
    /\ LET try == RowsOfMeasurement(day_msmts[day_idx + 1], day_idx)
       IN  /\ try.raised
           /\ day_rows' = WriteRows(day_rows, try.rows)
           /\ day_statements' = day_statements \o InsertStatements(try.rows)
    /\ day_attempted' = Append(day_attempted, day_idx)
    /\ bad_msmts' = WriteBadMsmt(bad_msmts, day_idx)
    /\ bad_msmts_fail_log' = WriteFailLog(bad_msmts_fail_log, day_idx)
    /\ day_pc' = AfterQuarantine(day_fast_fail)
    /\ day_exc' = IF AfterQuarantine(day_fast_fail) = "raised" THEN Some("exc") ELSE None
    /\ day_idx' = day_idx + 1
    /\ UNCHANGED <<day_msmts, day_fast_fail, day_start_at_idx, day_clickhouse, day_skip_verdicts,
                   day_verdicts>>
    /\ UNCHANGED vars_beside_day

\* domains_in_a_day returns a domain: obs_dns holds a row with a timestamp
\* from start_day to end_day
HasDnsObservations(db) ==
    \E k \in DOMAIN db : db[k].table = "obs_dns" /\ InDay(db[k].timestamp)

\* the loop is over: write_verdicts_to_db(db, generate_website_verdicts(...))
\* on Clickhouse and unless skipped.  The domains of the day are queried;
\* with none the pass returns.  Else the three baselines of the first
\* domain are made and its DNS observations are queried, ordered by
\* report_id.  On a table without that column the database refuses the
\* query; on one with it the rows are grouped and
\* websites_observation_group raises the AttributeError of
\* dns_obs_list[0].report_id.  Either exception leaves process_day.
DayVerdicts ==
    /\ day_pc = "loop"
    /\ day_idx = Len(day_msmts)
    /\ day_clickhouse /\ ~day_skip_verdicts
    /\ IF HasDnsObservations(day_rows)
       THEN /\ day_statements' = (day_statements \o <<DomainsQuery>> \o BaselineStatements)
                                    \o <<SessionQuery>>
            /\ day_rows' = Execute(ExecuteAll(Execute(day_rows, DomainsQuery),
                                              BaselineStatements), SessionQuery)
            /\ day_pc' = "raised"
            /\ \E columns \in ObsDnsSchemas :
                  day_exc' = IF UnknownColumn(SessionQuery, columns)
                             THEN Some("DatabaseError")
                             ELSE Some("AttributeError")
            /\ UNCHANGED day_verdicts
       ELSE /\ day_statements' = Append(day_statements, DomainsQuery)
            /\ day_rows' = Execute(day_rows, DomainsQuery)
            /\ day_pc' = "returned"
            /\ day_verdicts' = TRUE
            /\ UNCHANGED day_exc
    /\ UNCHANGED <<day_msmts, day_fast_fail, day_start_at_idx, day_clickhouse, day_skip_verdicts,
                   day_idx, bad_msmts, bad_msmts_fail_log, day_attempted>>
    /\ UNCHANGED vars_beside_day

\* the loop is over and no verdicts are due: return
DayReturn ==
    /\ day_pc = "loop"
    /\ day_idx = Len(day_msmts)
    /\ ~(day_clickhouse /\ ~day_skip_verdicts)
    /\ day_pc' = "returned"
    /\ UNCHANGED <<day_msmts, day_fast_fail, day_start_at_idx, day_clickhouse, day_skip_verdicts,
                   day_idx, day_exc, bad_msmts, bad_msmts_fail_log, day_rows, day_statements,
                   day_attempted, day_verdicts>>
    /\ UNCHANGED vars_beside_day

NextDay ==
    \/ DaySkip
    \/ DayProcess
    \/ DayQuarantine
    \/ DayVerdicts
    \/ DayReturn

\* the measurements iterated over whose try block raised
RaisedSoFar ==
    {i \in 0..(day_idx - 1) :
        i >= day_start_at_idx /\ RowsOfMeasurement(day_msmts[i + 1], i).raised}

\* the positions of a file at which an entry of measurement i starts
EntriesOf(file, end, i) ==
    {k \in DOMAIN file : file[k].text # end /\ file[k].idx = i}

\* every entry is followed by its terminator
Terminated(file, end) ==
    /\ Len(file) % 2 = 0
    /\ \A k \in DOMAIN file :
          IF k % 2 = 0 THEN file[k].text = end /\ file[k].idx = file[k - 1].idx
                       ELSE file[k].text # end

\* the exception of a measurement has left process_day
MsmtExceptionLeft == day_pc = "raised" /\ day_exc = Some("exc")

\* C15: a measurement whose loading or processing raised has exactly one
\* raw-record entry in bad_msmts.jsonl and one traceback entry in
\* bad_msmts_fail_log.txt, and no other measurement has any; with fast_fail
\* off no exception leaves process_day, and process_day returns only after
\* the try block of every measurement from start_at_idx on was entered;
\* with fast_fail on the first raising measurement ends process_day with
\* its two entries written
C15_QuarantineAndComplete ==
    /\ Terminated(bad_msmts, "\n")
    /\ Terminated(bad_msmts_fail_log, "ENDTB----\n")
    /\ \A i \in 0..(Len(day_msmts) - 1) :
          /\ Cardinality(EntriesOf(bad_msmts, "\n", i)) = (IF i \in RaisedSoFar THEN 1 ELSE 0)
          /\ Cardinality(EntriesOf(bad_msmts_fail_log, "ENDTB----\n", i))
                = (IF i \in RaisedSoFar THEN 1 ELSE 0)
    /\ ~day_fast_fail =>
          /\ day_pc # "raised"
          /\ day_pc = "returned" =>
                day_attempted = [k \in 1..(Len(day_msmts) - day_start_at_idx) |->
                                    day_start_at_idx + k - 1]
    /\ day_fast_fail =>
          /\ MsmtExceptionLeft <=> RaisedSoFar # {}
          /\ MsmtExceptionLeft =>
                /\ RaisedSoFar = {day_idx - 1}
                /\ EntriesOf(bad_msmts, "\n", day_idx - 1) = {Len(bad_msmts) - 1}
                /\ EntriesOf(bad_msmts_fail_log, "ENDTB----\n", day_idx - 1)
                      = {Len(bad_msmts_fail_log) - 1}

\* the observation rows of the database, in insertion order
ObservationRows(db) ==
    LET IsObservation(r) ==
            r.table \in {"obs_nettest", "obs_dns", "obs_tcp", "obs_tls", "obs_http"}
    IN  SelectSeq(db, IsObservation)

IsPrefix(s, t) == Len(s) <= Len(t) /\ SubSeq(t, 1, Len(s)) = s

HostnameLabels ==
    ("example.com" :> <<7, 3>>) @@ ("example.com." :> <<7, 3, 0>>) @@
    ("com" :> <<3>>) @@ ("" :> <<0>>) @@ (".example.com" :> <<0, 7, 3>>) @@
    ("example..com" :> <<7, 0, 3>>) @@
    ("aaaaaaaaaaaaaaaaaaaaaaaaaaaaaaaaaaaaaaaaaaaaaaaaaaaaaaaaaaaaaaaa.com" :> <<64, 3>>)

\* the idna encoding of server_hostname: a trailing dot is dropped, then
\* every label must hold 1 to 63 characters
IdnaEncodes(labels) ==
    LET kept == IF Len(labels) > 1 /\ labels[Len(labels)] = 0
                THEN SubSeq(labels, 1, Len(labels) - 1) ELSE labels
    IN  \A k \in DOMAIN kept : kept[k] \in 1..63

\* context.wrap_socket(sock, server_hostname=hostname): what it raises, if anything
wrap_socket(hostname) ==
    IF hostname = "" THEN Some("ValueError")
    ELSE IF ~IdnaEncodes(HostnameLabels[hostname]) THEN Some("UnicodeError")
    ELSE None

\* what conn.connect((ip, 443)) raises, if anything
ConnectOutcomes ==
    {None} \cup {Some(e) : e \in {"ssl.SSLCertVerificationError", "ssl.SSLError",
                                  "socket.timeout", "socket.error", "Exception"}}

\* conn.connect((ip, 443)) on an AF_INET socket: an IPv6 address is not
\* resolved in that family, any other outcome is the network's
connect(ip, network) ==
    IF ip \in DOMAIN IPv4Literals THEN network ELSE Some("socket.error")

\* is_tls_valid(ip, hostname): [raised |-> the exception leaving the
\* function, value |-> the value returned]
is_tls_valid(ip, hostname, network) ==
    IF ~IsNone(wrap_socket(hostname))
    THEN [raised |-> wrap_socket(hostname), value |-> None]
    ELSE IF ~IsNone(connect(ip, network))
         THEN [raised |-> None, value |-> Some(FALSE)]
         ELSE [raised |-> None, value |-> Some(TRUE)]

ProbeIPs == {"8.8.8.8", "1.1.1.1", "fc00::1"}

InitProbe ==
    /\ probe_ip \in {Some(ip) : ip \in ProbeIPs}
    /\ probe_hostname \in {Some(h) : h \in DOMAIN HostnameLabels}
    /\ probe_connect \in ConnectOutcomes
    /\ probe_pc = "call"
    /\ probe_result = None
    /\ IdleBesideProbe

\* the call of get_extra_dns_consistency_tls_baseline
IsTlsValid ==
    /\ probe_pc = "call"
    /\ LET r == is_tls_valid(Get(probe_ip), Get(probe_hostname), probe_connect)
       IN  /\ probe_result' = r
           /\ probe_pc' = IF IsNone(r.raised) THEN "returned" ELSE "raised"
    /\ UNCHANGED <<probe_ip, probe_hostname, probe_connect>>
    /\ UNCHANGED vars_beside_probe

NextProbe == IsTlsValid

\* C17: is_tls_valid never raises; it returns true exactly when the
\* handshake succeeded and false for every other outcome
C17_ProbeNeverRaises ==
    probe_pc \notin {"off", "call"} =>
        /\ probe_pc = "returned"
        /\ probe_result.value =
              Some(Get(probe_ip) \in DOMAIN IPv4Literals /\ IsNone(probe_connect))

(***************************************************************************)
(* The response part of HTTPObservation.from_measurement: the fingerprint  *)
(* matches and the titles of the body (get_html_title and                  *)
(* get_html_meta_title of datautils.py).                                   *)
(***************************************************************************)
MaxFragments == 2
MaxMatches == 2

\* <meta
PatMeta == <<60, 109, 101, 116, 97>>

\* property="og:title"
PatProperty == <<112, 114, 111, 112, 101, 114, 116, 121, 61, 34, 111, 103, 58, 116, 105, 116, 108, 101, 34>>

\* content="
PatContent == <<99, 111, 110, 116, 101, 110, 116, 61, 34>>

\* "
PatQuote == <<34>>

\* the pieces response bodies are made of, as octets
FragmentBytes ==
    \* <!DOCTYPE html><html>
    ("doctype" :>
        <<60, 33, 68, 79, 67, 84, 89, 80, 69, 32, 104, 116, 109, 108, 62, 60, 104, 116, 109,
        108, 62>>) @@
    \* <meta property="og:title" content="O\xc3\xa9">
    ("meta_og" :>
        <<60, 109, 101, 116, 97, 32, 112, 114, 111, 112, 101, 114, 116, 121, 61, 34, 111,
        103, 58, 116, 105, 116, 108, 101, 34, 32, 99, 111, 110, 116, 101, 110, 116, 61, 34,
        79, 195, 169, 34, 62>>) @@
    \* <META PROPERTY="OG:TITLE" CONTENT="UP">
    ("META_OG" :>
        <<60, 77, 69, 84, 65, 32, 80, 82, 79, 80, 69, 82, 84, 89, 61, 34, 79, 71, 58, 84,
        73, 84, 76, 69, 34, 32, 67, 79, 78, 84, 69, 78, 84, 61, 34, 85, 80, 34, 62>>) @@
    \* <meta content="CF" property="og:title">
    ("meta_og_content_first" :>
        <<60, 109, 101, 116, 97, 32, 99, 111, 110, 116, 101, 110, 116, 61, 34, 67, 70, 34,
        32, 112, 114, 111, 112, 101, 114, 116, 121, 61, 34, 111, 103, 58, 116, 105, 116,
        108, 101, 34, 62>>) @@
    \* <meta name="x" content="X\xe9">
    ("meta_other" :>
        <<60, 109, 101, 116, 97, 32, 110, 97, 109, 101, 61, 34, 120, 34, 32, 99, 111, 110,
        116, 101, 110, 116, 61, 34, 88, 233, 34, 62>>) @@
    \* <title>Ti</title>
    ("title" :>
        <<60, 116, 105, 116, 108, 101, 62, 84, 105, 60, 47, 116, 105, 116, 108, 101, 62>>)

\* re.IGNORECASE on a bytes pattern: the ASCII letters fold to lower case
LowerOctet(o) == IF o >= 65 /\ o <= 90 THEN o + 32 ELSE o

\* the least index from i on at which the pattern occurs in b, letters
\* folded; 0 when there is none
RECURSIVE FindFrom(_, _, _)
FindFrom(b, pattern, i) ==
    IF i + Len(pattern) - 1 > Len(b) THEN 0
    ELSE IF \A k \in DOMAIN pattern : LowerOctet(b[i + k - 1]) = pattern[k] THEN i
    ELSE FindFrom(b, pattern, i + 1)

\* META_TITLE_REGEXP.search(body, pos): group 1 of the leftmost match of
\* <meta.*?property="og:title".*?content="(.*?)" that starts at offset pos
\* (counted from 0) or later, None without a match.  With re.DOTALL each
\* lazy .*? runs to the nearest following occurrence of what comes next.
META_TITLE_REGEXP_search(body, pos) ==
    LET meta == FindFrom(body, PatMeta, pos + 1)
        property == IF meta = 0 THEN 0
                    ELSE FindFrom(body, PatProperty, meta + Len(PatMeta))
        content == IF property = 0 THEN 0
                   ELSE FindFrom(body, PatContent, property + Len(PatProperty))
        quote == IF content = 0 THEN 0
                 ELSE FindFrom(body, PatQuote, content + Len(PatContent))
    IN  IF quote = 0 THEN None
        ELSE Some(SubSeq(body, content + Len(PatContent), quote - 1))

\* re.IGNORECASE | re.DOTALL, the integer handed to search as its pos
IGNORECASE_DOTALL == 18

\* guess_decode: ascii, then utf-8, then latin1, which decodes every octet
guess_decode(b) ==
    IF \A k \in DOMAIN b : b[k] < 128 THEN b
    ELSE IF ~IsNone(utf8_decode(b)) THEN Get(utf8_decode(b))
    ELSE b

get_html_meta_title(body) ==
    LET m == META_TITLE_REGEXP_search(body, IGNORECASE_DOTALL)
    IN  IF ~IsNone(m) THEN guess_decode(Get(m)) ELSE <<>>

\* get_html_title searches META_TITLE_REGEXP as well
get_html_title(body) ==
    LET m == META_TITLE_REGEXP_search(body, IGNORECASE_DOTALL)
    IN  IF ~IsNone(m) THEN guess_decode(Get(m)) ELSE <<>>

\* a match of the fingerprint database
Fingerprint(name, scope, expected_countries) ==
    [name |-> name, scope |-> scope, expected_countries |-> expected_countries]

Fingerprints ==
    {Fingerprint("cp.fp_1", "fp", {}), Fingerprint("nat.it_1", "nat", {"IT"}),
     Fingerprint("isp.us_1", "isp", {"US"}), Fingerprint("prod.x_1", "prod", {})}

\* msmt.probe_cc
ProbeCc == "IT"

\* the loop over fp_matches: the flags and the names after the matches
RECURSIVE MatchLoop(_, _)
MatchLoop(matches, hrro) ==
    IF matches = <<>> THEN hrro
    ELSE LET fp == Head(matches)
             flagged == IF fp.scope = "fp"
                        THEN [hrro EXCEPT !.response_matches_false_positive = TRUE]
                        ELSE [hrro EXCEPT !.response_matches_blockpage = TRUE]
             countried == IF fp.expected_countries # {} /\ ProbeCc \in fp.expected_countries
                          THEN [flagged EXCEPT !.fingerprint_country_consistent = Some(TRUE)]
                          ELSE flagged
         IN  MatchLoop(Tail(matches),
                       [countried EXCEPT !.response_fingerprints = Append(@, fp.name)])

\* the response fields as HTTPObservation is constructed
NewResponseFields ==
    [response_fingerprints |-> <<>>,
     response_matches_false_positive |-> FALSE,
     response_matches_blockpage |-> FALSE,
     fingerprint_country_consistent |-> None,
     response_body_length |-> None,
     response_body_title |-> None,
     response_body_meta_title |-> None]

\* HTTPObservation.from_measurement from the fingerprint matches to the titles
ResponseFields(matches, body) ==
    LET matched == MatchLoop(matches, NewResponseFields)
    IN  IF body # <<>>
        THEN [matched EXCEPT !.response_body_length = Some(Len(body)),
                             !.response_body_title = Some(get_html_title(body)),
                             !.response_body_meta_title = Some(get_html_meta_title(body))]
        ELSE matched

RECURSIVE Concat(_)
Concat(pieces) ==
    IF pieces = <<>> THEN <<>> ELSE FragmentBytes[Head(pieces)] \o Concat(Tail(pieces))

InitResponse ==
    /\ response_fragments \in UNION {[1..n -> DOMAIN FragmentBytes] : n \in 0..MaxFragments}
    /\ response_body = Concat(response_fragments)
    /\ fp_matches \in UNION {[1..n -> Fingerprints] : n \in 0..MaxMatches}
    /\ response_pc = "input"
    /\ response_hrro = None
    /\ IdleBesideResponse

HttpResponse ==
    /\ response_pc = "input"
    /\ response_hrro' = Some(ResponseFields(fp_matches, response_body))
    /\ response_pc' = "done"
    /\ UNCHANGED <<response_fragments, response_body, fp_matches>>
    /\ UNCHANGED vars_beside_response

NextResponse == HttpResponse

\* the text of the title each piece carries, as code points
FragmentText ==
    ("doctype" :> <<>>) @@
    ("meta_og" :> <<79, 233>>) @@
    ("META_OG" :> <<85, 80>>) @@
    ("meta_og_content_first" :> <<67, 70>>) @@
    ("meta_other" :> <<>>) @@
    ("title" :> <<84, 105>>)

OgPieces == {"meta_og", "META_OG", "meta_og_content_first"}

\* the text of the first piece of the kinds given, None without one
FirstOf(pieces, kinds) ==
    LET at == {k \in DOMAIN pieces : pieces[k] \in kinds}
    IN  IF at = {} THEN None
        ELSE Some(FragmentText[pieces[CHOOSE k \in at : \A j \in at : k <= j]])

\* C21: the title extracted from a body is the content of its OpenGraph
\* title meta tag when it has one, else the content of its <title> tag when
\* it has one, and empty only when it has neither
C21_TitleExtraction ==
    (response_pc = "done" /\ response_body # <<>>) =>
        Get(response_hrro).response_body_title =
            Some(IF ~IsNone(FirstOf(response_fragments, OgPieces))
                 THEN Get(FirstOf(response_fragments, OgPieces))
                 ELSE IF ~IsNone(FirstOf(response_fragments, {"title"}))
                 THEN Get(FirstOf(response_fragments, {"title"}))
                 ELSE <<>>)

\* the names of the matches that are not false positives, in match order
BlockpageNames(matches) ==
    LET NotFp(fp) == fp.scope # "fp"
        kept == SelectSeq(matches, NotFp)
    IN  [k \in DOMAIN kept |-> kept[k].name]

\* C22: response_matches_false_positive is true iff some match has scope
\* "fp", response_matches_blockpage is true iff some match has another
\* scope, and response_fingerprints holds the names of the matches that are
\* not false positives, in match order
C22_FingerprintFlags ==
    response_pc = "done" =>
        /\ Get(response_hrro).response_matches_false_positive
              = (\E k \in DOMAIN fp_matches : fp_matches[k].scope = "fp")
        /\ Get(response_hrro).response_matches_blockpage
              = (\E k \in DOMAIN fp_matches : fp_matches[k].scope # "fp")
        /\ Get(response_hrro).response_fingerprints = BlockpageNames(fp_matches)

(***************************************************************************)
(* Specifications: one per part of the pipeline.                           *)
(***************************************************************************)
SpecVerdicts == InitVerdicts /\ [][NextVerdicts]_vars

SpecExtend == InitExtend /\ [][NextExtend]_vars

SpecTLS == InitTLS /\ [][NextTLS]_vars

SpecHTTP == InitHTTP /\ [][NextHTTP]_vars

SpecBogon == InitBogon /\ [][NextBogon]_vars

SpecDNS == InitDNS /\ [][NextDNS]_vars

SpecDnscheck == InitDnscheck /\ [][NextDnscheck]_vars

SpecPool == InitPool /\ [][NextPool]_vars

SpecPoolFair == InitPool /\ [][NextPool]_vars /\ FairPool

SpecDay == InitDay /\ [][NextDay]_vars

SpecProbe == InitProbe /\ [][NextProbe]_vars

SpecResponse == InitResponse /\ [][NextResponse]_vars
====
